---- MODULE Spec2Model ----
(***************************************************************************)
(* Model of the ETM preprocessing pipeline (src/src/etm_preprocessing):    *)
(* identity canonicalization (_make_merge_id), the term codec              *)
(* (decode_psu_term), the attempt-outcome parser (parse_period_outcome),   *)
(* the wide-to-long GPA reshaper (build_term_gpa_features) and the         *)
(* workbook build (build_information_only).                                *)
(*                                                                         *)
(* Text is modelled as a sequence of characters, each character a          *)
(* one-token string; the non-ASCII characters the code names are the       *)
(* tokens NBSP (U+00A0), ZWSP (U+200B), HYPHEN (U+2010), ENDASH (U+2013)   *)
(* and MINUS (U+2212).                                                     *)
(***************************************************************************)
EXTENDS Integers, Sequences, FiniteSets, TLC

VARIABLES
    rawId,      \* identity reconciler: the raw id text handed to _make_merge_id
    mergeId,    \* its canonical id (NotRun before the call)
    mergeId2,   \* the canonical id of the canonical id (NotRun before the call)
    terms,      \* term codec: the column of term-code cells to decode
    decoded,    \* the results of decode_psu_term, cell by cell
    periodTxt,  \* outcome parser: the AY-period outcome cell
    parsed,     \* the result of parse_period_outcome (NotRun before the call)
    gpaCols,    \* GPA grid: the term-slot columns the sheet has
    gpaSheet,   \* GPA grid: its rows, in sheet order
    reshaped,   \* the result of build_term_gpa_features (NotRun before the call)
    infoSheet,  \* info sheet: its rows, in sheet order
    built,      \* the result of build_information_only (NotRun before the call)
    ay1,        \* course mastery: the outcome cell after the 1st academic year
    ay2,        \* the outcome cell after the 2nd academic year
    finalOutcome, \* the free-text final outcome cell
    finalPass,  \* the result of outcome_is_pass on it (NotRun before the call)
    attempt,    \* the result of compute_attempts_ay_model (NotRun before the call)
    courses,    \* one student's outcome cells, course by course
    feat,       \* the student's row of build_attempt_features (NotRun before the call)
    table,      \* sanitizer: the clean table on disk, column by column
    sanitized,  \* what the last run of the sanitizer wrote (NotRun before the first)
    previous,   \* what the run before it wrote (NotRun before the second)
    series,     \* ensure_binary: the series handed to it, cell by cell
    binary,     \* the series it returns (NotRun before the call)
    credit,     \* credit window: a numeric credit value
    canon,      \* the bin pd.cut gives it (NotRun before the call)
    pc,         \* run_all: the index in CMDS of the next command (0: not started)
    log,        \* the commands run so far, with the clean table each read
    summarySheet, \* prepare_information_features: the info sheet handed to it
    prepared    \* the table it returns, or the error (NotRun before the call)

idVars    == <<rawId, mergeId, mergeId2>>
termVars  == <<terms, decoded>>
parseVars == <<periodTxt, parsed>>
gpaVars   == <<gpaCols, gpaSheet, reshaped>>
buildVars == <<infoSheet, built>>
attemptVars   == <<ay1, ay2, finalOutcome, finalPass, attempt>>
rollupVars    == <<courses, feat>>
sanitizerVars == <<table, sanitized, previous>>
binaryVars    == <<series, binary>>
creditVars    == <<credit, canon>>
runAllVars    == <<pc, log>>
prepareVars   == <<summarySheet, prepared>>
analysisVars  == <<sanitizerVars, binaryVars, creditVars, runAllVars, prepareVars>>
vars      == <<rawId, mergeId, mergeId2, terms, decoded, periodTxt, parsed,
               gpaCols, gpaSheet, reshaped, infoSheet, built,
               ay1, ay2, finalOutcome, finalPass, attempt, courses, feat, table, sanitized, previous,
               series, binary, credit, canon, pc, log, summarySheet, prepared>>

\* The value of a result variable before its operation has run.
NotRun == [status |-> "not_run"]

(***************************************************************************)
(* Characters                                                              *)
(***************************************************************************)
UpperAlphabet ==
    << "A", "B", "C", "D", "E", "F", "G", "H", "I", "J", "K", "L", "M",
       "N", "O", "P", "Q", "R", "S", "T", "U", "V", "W", "X", "Y", "Z" >>
LowerAlphabet ==
    << "a", "b", "c", "d", "e", "f", "g", "h", "i", "j", "k", "l", "m",
       "n", "o", "p", "q", "r", "s", "t", "u", "v", "w", "x", "y", "z" >>
UpperChars == {UpperAlphabet[i] : i \in 1..26}
LowerChars == {LowerAlphabet[i] : i \in 1..26}
DigitChars == {"0", "1", "2", "3", "4", "5", "6", "7", "8", "9"}
\* the dash class of the regex [U+2010-U+2015\-]
DashChars  == {"-", "HYPHEN", "ENDASH"}
\* what str.strip() removes at both ends, and what \s matches
SpaceChars == {" ", "TAB", "NBSP"}

\* the place of a letter in its alphabet
LetterIndex(alphabet, c) == CHOOSE i \in 1..26 : alphabet[i] = c

\* str.upper(), character by character
UpperOf(c) == IF c \in LowerChars THEN UpperAlphabet[LetterIndex(LowerAlphabet, c)] ELSE c

\* str.replace / regex replace by "": drop every character of `drop`
RECURSIVE RemoveChars(_, _)
RemoveChars(s, drop) ==
    IF s = <<>> THEN <<>>
    ELSE IF Head(s) \in drop THEN RemoveChars(Tail(s), drop)
    ELSE <<Head(s)>> \o RemoveChars(Tail(s), drop)

\* regex replace of [^A-Z0-9] by "": keep only the characters of `keep`
RECURSIVE KeepChars(_, _)
KeepChars(s, keep) ==
    IF s = <<>> THEN <<>>
    ELSE IF Head(s) \in keep THEN <<Head(s)>> \o KeepChars(Tail(s), keep)
    ELSE KeepChars(Tail(s), keep)

RECURSIVE LStrip(_)
LStrip(s) ==
    IF s # <<>> /\ Head(s) \in SpaceChars THEN LStrip(Tail(s)) ELSE s

RECURSIVE RStrip(_)
RStrip(s) ==
    IF s # <<>> /\ s[Len(s)] \in SpaceChars THEN RStrip(SubSeq(s, 1, Len(s) - 1)) ELSE s

\* str.strip()
Strip(s) == RStrip(LStrip(s))

\* str.upper()
Upper(s) == [i \in 1..Len(s) |-> UpperOf(s[i])]

\* the minimum length of the digit run in the regex (\d{5,})
MinDigitRun == 5

\* the length of the maximal run of digits of s that starts at position i
RECURSIVE DigitRunLen(_, _)
DigitRunLen(s, i) ==
    IF i > Len(s) \/ s[i] \notin DigitChars THEN 0 ELSE 1 + DigitRunLen(s, i + 1)

\* re.search: the positions at which the pattern \d{5,} matches
MatchStarts(s) == {i \in 1..Len(s) : DigitRunLen(s, i) >= MinDigitRun}

Min(S) == CHOOSE x \in S : \A y \in S : x <= y
Max(S) == CHOOSE x \in S : \A y \in S : x >= y

\* A mis-grouped pattern, \d(\d{4,}): the captured group loses the run's first digit.
ExtractDigitRunMisgrouped(s) ==
    IF MatchStarts(s) = {} THEN [found |-> FALSE, group |-> <<>>]
    ELSE LET i == Min(MatchStarts(s))
         IN  [found |-> TRUE, group |-> SubSeq(s, i + 1, i + DigitRunLen(s, i) - 1)]

\* Series.str.extract(r"(\d{5,})", expand=False): the leftmost match, taken
\* greedily; no match gives NaN (found = FALSE).
ExtractDigitRun(s) ==
    IF MatchStarts(s) = {} THEN [found |-> FALSE, group |-> <<>>]
    ELSE LET i == Min(MatchStarts(s))
         IN  [found |-> TRUE, group |-> SubSeq(s, i, i + DigitRunLen(s, i) - 1)]

\* cli.py lines 50-52: the cleaned text the extraction works on
CleanId(s) ==
    LET s1 == RemoveChars(RemoveChars(s, {"NBSP"}), {"ZWSP"})
        s2 == RemoveChars(Upper(Strip(s1)), DashChars)
    IN  KeepChars(s2, UpperChars \cup DigitChars)

\* A canonicalization that forgets the digit-run extraction.
MakeMergeIdNoExtract(s) == CleanId(s)

\* _make_merge_id on one cell
MakeMergeId(s) ==
    LET cleaned == CleanId(s)
        core    == ExtractDigitRun(cleaned)
    IN  IF core.found THEN core.group ELSE cleaned

\* _normalize_id on one cell: astype(str).str.strip()
NormalizeId(s) == Strip(s)

(***************************************************************************)
(* Raw ids: up to MaxChunks pieces, each a prefix letter, a dash or space  *)
(* variant, some other punctuation, or a run of digits.                    *)
(***************************************************************************)
MaxChunks == 3

IdChunks ==
    { <<"B">>, <<"s">>, <<"-">>, <<"ENDASH">>, <<"MINUS">>, <<" ">>, <<"NBSP">>,
      <<"ZWSP">>, <<"#">>, <<"0", "0", "9", "9", "8">>,
      <<"1", "2", "3", "4", "5", "6">>, <<"4", "2">> }

RECURSIVE ChunkTexts(_)
ChunkTexts(n) ==
    IF n = 0 THEN {<<>>}
    ELSE LET shorter == ChunkTexts(n - 1)
         IN  shorter \cup {s \o c : s \in shorter, c \in IdChunks}

RawIds == ChunkTexts(MaxChunks)

(***************************************************************************)
(* Initial values of the parts of the state a specification leaves alone   *)
(***************************************************************************)
IdIdle    == rawId = <<>> /\ mergeId = NotRun /\ mergeId2 = NotRun
TermIdle  == terms = <<>> /\ decoded = <<>>
ParseIdle == periodTxt = [kind |-> "na"] /\ parsed = NotRun
GpaIdle   == gpaCols = {} /\ gpaSheet = <<>> /\ reshaped = NotRun
BuildIdle == infoSheet = <<>> /\ built = NotRun
AttemptIdle == ay1 = [kind |-> "na"] /\ ay2 = [kind |-> "na"] /\ finalOutcome = [kind |-> "na"]
               /\ finalPass = NotRun /\ attempt = NotRun
RollupIdle == courses = <<>> /\ feat = NotRun
SanitizerIdle == table = <<>> /\ sanitized = NotRun /\ previous = NotRun
BinaryIdle == series = <<>> /\ binary = NotRun
CreditIdle == credit = 0 /\ canon = NotRun
RunAllIdle == pc = 0 /\ log = <<>>
NoSheet == [columns |-> {}, rows |-> <<>>]
PrepareIdle == summarySheet = NoSheet /\ prepared = NotRun
AnalysisIdle == SanitizerIdle /\ BinaryIdle /\ CreditIdle /\ RunAllIdle /\ PrepareIdle

(***************************************************************************)
(* Identity reconciler: _make_merge_id applied to a raw id, then to its    *)
(* own result.                                                             *)
(***************************************************************************)
IdentityInit ==
    /\ rawId \in RawIds
    /\ mergeId = NotRun
    /\ mergeId2 = NotRun
    /\ TermIdle /\ ParseIdle /\ GpaIdle /\ BuildIdle /\ AttemptIdle /\ RollupIdle /\ AnalysisIdle

Canonicalize ==
    /\ mergeId = NotRun
    /\ mergeId' = [status |-> "ok", value |-> MakeMergeId(rawId)]
    /\ UNCHANGED <<rawId, mergeId2, termVars, parseVars, gpaVars, buildVars,
                 attemptVars, rollupVars, analysisVars>>

Recanonicalize ==
    /\ mergeId # NotRun
    /\ mergeId2 = NotRun
    /\ mergeId2' = [status |-> "ok", value |-> MakeMergeId(mergeId.value)]
    /\ UNCHANGED <<rawId, mergeId, termVars, parseVars, gpaVars, buildVars,
                 attemptVars, rollupVars, analysisVars>>

IdentityNext == Canonicalize \/ Recanonicalize

SpecIdentity == IdentityInit /\ [][IdentityNext]_vars

\* C1: canonicalization is idempotent: canonicalizing a canonical id returns it
\* unchanged, for every raw id.
C1_Idempotent ==
    mergeId2 # NotRun => mergeId2.value = mergeId.value

\* C1 witness: a raw id with a prefix, a dash and a digit run has been
\* canonicalized twice, and the first pass changed it.
C1_Witness ==
    /\ mergeId2 # NotRun
    /\ mergeId.value # rawId
    /\ Len(mergeId.value) >= MinDigitRun
    /\ \E i \in 1..Len(rawId) : rawId[i] \in DashChars

\* the length of the run of digits that ends the text
RECURSIVE TrailingRunLen(_)
TrailingRunLen(s) ==
    IF s = <<>> \/ s[Len(s)] \notin DigitChars THEN 0
    ELSE 1 + TrailingRunLen(SubSeq(s, 1, Len(s) - 1))

\* the last n characters of the text
Suffix(s, n) == SubSeq(s, Len(s) - n + 1, Len(s))

\* C2: the canonical id is the trailing run of 5+ digits of the cleaned text
\* when the cleaned text ends in one, and the whole cleaned text otherwise.
C2_TrailingRun ==
    mergeId # NotRun =>
        LET cleaned == CleanId(rawId)
            n       == TrailingRunLen(cleaned)
        IN  mergeId.value = IF n >= MinDigitRun THEN Suffix(cleaned, n) ELSE cleaned

(***************************************************************************)
(* Cells: a spreadsheet cell is missing (NaN), a number or a text.         *)
(***************************************************************************)
NA       == [kind |-> "na"]
Num(n)   == [kind |-> "num", n |-> n]
Text(s)  == [kind |-> "text", s |-> s]

\* pd.isna / pd.notna on one cell
IsNa(c) == c.kind = "na"

DigitValue(ch) ==
    CASE ch = "0" -> 0 [] ch = "1" -> 1 [] ch = "2" -> 2 [] ch = "3" -> 3
      [] ch = "4" -> 4 [] ch = "5" -> 5 [] ch = "6" -> 6 [] ch = "7" -> 7
      [] ch = "8" -> 8 [] ch = "9" -> 9

\* the number written by a non-empty run of decimal digits
RECURSIVE DigitsValue(_)
DigitsValue(s) ==
    IF s = <<>> THEN 0
    ELSE 10 * DigitsValue(SubSeq(s, 1, Len(s) - 1)) + DigitValue(s[Len(s)])

AllDigits(s) == s # <<>> /\ \A i \in 1..Len(s) : s[i] \in DigitChars

\* int(text): surrounding whitespace and one sign are accepted, then decimal
\* digits only; anything else is a ValueError (ok = FALSE).
IntOfText(s) ==
    LET body   == Strip(s)
        signed == body # <<>> /\ Head(body) \in {"-", "+"}
        digits == IF signed THEN Tail(body) ELSE body
    IN  IF AllDigits(digits)
        THEN [ok |-> TRUE,
              n  |-> IF signed /\ Head(body) = "-" THEN 0 - DigitsValue(digits)
                     ELSE DigitsValue(digits)]
        ELSE [ok |-> FALSE, n |-> 0]

(***************************************************************************)
(* Term codec: decode_psu_term                                             *)
(***************************************************************************)
\* TERM_DIGIT_TO_NAME.get(sem_digit, f"Term{sem_digit}")
SemName(d) ==
    CASE d = 1 -> "Spring" [] d = 5 -> "Summer" [] d = 8 -> "Fall"
      [] d = 0 -> "Term0" [] d = 2 -> "Term2" [] d = 3 -> "Term3"
      [] d = 4 -> "Term4" [] d = 6 -> "Term6" [] d = 7 -> "Term7"
      [] d = 9 -> "Term9"

\* TERM_DIGIT_TO_MONTH.get(sem_digit, 1)
SemMonth(d) ==
    CASE d = 1 -> 1 [] d = 5 -> 6 [] d = 8 -> 8 [] OTHER -> 1

\* datetime.MINYEAR and datetime.MAXYEAR: pd.Timestamp(year=..., month=..., day=1)
\* builds a datetime first, which raises ValueError outside this range.
MinYear == 1
MaxYear == 9999

NoneTriple == [raised |-> FALSE, missing |-> TRUE]
Raised(what) == [raised |-> TRUE, error |-> what]

\* A decoder that takes the year from the second and third digits only.
DecodeIntTwoDigitYear(n) ==
    LET sem_digit == n % 10
        base      == n \div 10
        year      == 2000 + (base % 100)
    IN  [raised |-> FALSE, missing |-> FALSE,
         label |-> [name |-> SemName(sem_digit), year |-> year],
         year  |-> year,
         ts    |-> [year |-> year, month |-> SemMonth(sem_digit)]]

\* decode_psu_term from line 79 on, n = int(term_code)
DecodeInt(n) ==
    LET sem_digit == n % 10
        base      == n \div 10
        year      == 2000 + (base - 200)
    IN  IF year < MinYear \/ year > MaxYear THEN Raised("ValueError")
        ELSE [raised |-> FALSE, missing |-> FALSE,
              label |-> [name |-> SemName(sem_digit), year |-> year],
              year  |-> year,
              ts    |-> [year |-> year, month |-> SemMonth(sem_digit)]]

\* decode_psu_term on one cell
DecodePsuTerm(c) ==
    IF IsNa(c) THEN NoneTriple
    ELSE IF c.kind = "num" THEN DecodeInt(c.n)
    ELSE LET parsedInt == IntOfText(c.s)
         IN  IF parsedInt.ok THEN DecodeInt(parsedInt.n) ELSE Raised("ValueError")

\* the bases (code div 10) and semester digits of the term codes tried
TermBases  == {-1800, -1799, 221, 222, 8199, 8200}
TermDigits == {0, 1, 5, 8, 9}
TermCodes  == {10 * b + d : b \in TermBases, d \in TermDigits}
TermTexts  == { <<"2", "2", "1", "8">>, <<"a", "b", "c">>, <<"2", "2", "1", "8", ".", "0">> }
TermCells  == {NA} \cup {Num(n) : n \in TermCodes} \cup {Text(s) : s \in TermTexts}

\* the number of cells of the term-code column
TermColumnLen == 2

RECURSIVE Columns(_, _)
Columns(cells, n) ==
    IF n = 0 THEN {<<>>}
    ELSE {Append(col, c) : col \in Columns(cells, n - 1), c \in cells}

TermInit ==
    /\ terms \in Columns(TermCells, TermColumnLen)
    /\ decoded = <<>>
    /\ IdIdle /\ ParseIdle /\ GpaIdle /\ BuildIdle /\ AttemptIdle /\ RollupIdle /\ AnalysisIdle

\* Series.apply(decode_psu_term), one cell at a time
DecodeNextTerm ==
    /\ Len(decoded) < Len(terms)
    /\ decoded' = Append(decoded, DecodePsuTerm(terms[Len(decoded) + 1]))
    /\ UNCHANGED <<terms, idVars, parseVars, gpaVars, buildVars,
                 attemptVars, rollupVars, analysisVars>>

TermNext == DecodeNextTerm

SpecTerm == TermInit /\ [][TermNext]_vars

Returned(r) == ~r.raised /\ ~r.missing

\* C6: for an integer code that decodes, code = 10 * (year - 1800) + digit with
\* digit in 0..9, the name is Spring, Summer, Fall for digit 1, 5, 8 and Term<d>
\* otherwise, and the label carries that name and year; a missing code gives
\* (None, None, None).
C6_DecodeFormula ==
    \A i \in 1..Len(decoded) :
        LET c == terms[i]
            r == decoded[i]
        IN  /\ IsNa(c) => r = NoneTriple
            /\ (c.kind = "num" /\ ~r.raised) =>
                  /\ ~r.missing
                  /\ \E d \in 0..9 :
                        /\ c.n = 10 * (r.year - 2000 + 200) + d
                        /\ r.label.year = r.year
                        /\ r.label.name =
                              CASE d = 1 -> "Spring" [] d = 5 -> "Summer" [] d = 8 -> "Fall"
                                [] d = 0 -> "Term0" [] d = 2 -> "Term2" [] d = 3 -> "Term3"
                                [] d = 4 -> "Term4" [] d = 6 -> "Term6" [] d = 7 -> "Term7"
                                [] d = 9 -> "Term9"

\* C6 witness: a missing code, a Fall code and a code with an unmapped digit
\* have all been decoded.
C6_Witness ==
    /\ \E i \in 1..Len(decoded) : IsNa(terms[i])
    /\ \E i \in 1..Len(decoded) :
          terms[i].kind = "num" /\ Returned(decoded[i]) /\ decoded[i].label.name \in {"Fall", "Term9"}

\* C7: every integer term code decodes to a triple; decode_psu_term never raises
\* on an integer.
C7_TotalOverIntegers ==
    \A i \in 1..Len(decoded) : terms[i].kind = "num" => ~decoded[i].raised

TsOrd(ts) == 12 * ts.year + ts.month

\* C8: for integer codes a < b that both decode, the timestamp of a is not later
\* than that of b, and strictly earlier when both digits are in {1, 5, 8}.
C8_ChronologicalOrder ==
    \A i, j \in 1..Len(decoded) :
        (/\ terms[i].kind = "num" /\ terms[j].kind = "num"
         /\ Returned(decoded[i]) /\ Returned(decoded[j])
         /\ terms[i].n < terms[j].n) =>
            /\ TsOrd(decoded[i].ts) <= TsOrd(decoded[j].ts)
            /\ (terms[i].n % 10 \in {1, 5, 8} /\ terms[j].n % 10 \in {1, 5, 8}) =>
                  TsOrd(decoded[i].ts) < TsOrd(decoded[j].ts)

(***************************************************************************)
(* Wide-to-long GPA reshaper: build_term_gpa_features                      *)
(* A GPA is kept in tenths of a grade point (35 is 3.5).                   *)
(***************************************************************************)
SEM_COLS_ORDERED ==
    << "1st_fall", "1st_spring", "1st_summer",
       "2nd_fall", "2nd_spring", "2nd_summer",
       "3rd_fall", "3rd_spring", "3rd_summer",
       "4th_fall", "4th_spring", "4th_summer",
       "5th_fall", "5th_spring", "5th_summer",
       "6th_fall", "6th_spring", "6th_summer",
       "7th_fall", "7th_spring", "7th_summer",
       "8th_fall", "8th_spring", "8th_summer",
       "9th_fall" >>

SummerSlots ==
    { "1st_summer", "2nd_summer", "3rd_summer", "4th_summer",
      "5th_summer", "6th_summer", "7th_summer", "8th_summer" }

\* the elements of seq that satisfy Keep, in order
RECURSIVE SelectIn(_, _)
SelectIn(seq, keep) ==
    IF seq = <<>> THEN <<>>
    ELSE IF Head(seq) \in keep THEN <<Head(seq)>> \o SelectIn(Tail(seq), keep)
    ELSE SelectIn(Tail(seq), keep)

\* _coerce_gpa_cols: [c for c in SEM_COLS_ORDERED if c in df.columns]
GpaColsOf(cols) == SelectIn(SEM_COLS_ORDERED, cols)

\* float(text) for a text of digits with at most one decimal place, in tenths;
\* any other text (blank, letters) has no numeric value.
FloatOfText(s) ==
    LET body == Strip(s)
        n    == Len(body)
    IN  IF AllDigits(body) THEN [ok |-> TRUE, n |-> 10 * DigitsValue(body)]
        ELSE IF /\ n >= 3
                /\ body[n - 1] = "."
                /\ AllDigits(SubSeq(body, 1, n - 2))
                /\ body[n] \in DigitChars
        THEN [ok |-> TRUE, n |-> 10 * DigitsValue(SubSeq(body, 1, n - 2)) + DigitValue(body[n])]
        ELSE [ok |-> FALSE, n |-> 0]

\* A coercion that fills what it cannot read with zero.
ToNumericZeroFill(c) ==
    IF c.kind = "na" THEN Num(0)
    ELSE IF c.kind = "num" THEN c
    ELSE LET f == FloatOfText(c.s) IN IF f.ok THEN Num(f.n) ELSE Num(0)

\* pd.to_numeric(errors="coerce") on one cell
ToNumeric(c) ==
    IF c.kind \in {"na", "num"} THEN c
    ELSE LET f == FloatOfText(c.s) IN IF f.ok THEN Num(f.n) ELSE NA

\* code points, for the order of str comparison
CharCode(ch) ==
    CASE ch \in DigitChars -> 48 + DigitValue(ch)
      [] ch \in UpperChars -> 64 + LetterIndex(UpperAlphabet, ch)
      [] ch \in LowerChars -> 96 + LetterIndex(LowerAlphabet, ch)
      [] ch = "TAB" -> 9   [] ch = " " -> 32  [] ch = "#" -> 35
      [] ch = "(" -> 40    [] ch = ")" -> 41  [] ch = "+" -> 43 [] ch = "," -> 44
      [] ch = "-" -> 45    [] ch = "." -> 46  [] ch = "=" -> 61 [] ch = "_" -> 95 [] ch = "?" -> 63
      [] ch = "NBSP" -> 160 [] ch = "ZWSP" -> 8203 [] ch = "HYPHEN" -> 8208
      [] ch = "ENDASH" -> 8211 [] ch = "MINUS" -> 8722

\* s < t as Python compares str
RECURSIVE StrLess(_, _)
StrLess(s, t) ==
    IF t = <<>> THEN FALSE
    ELSE IF s = <<>> THEN TRUE
    ELSE IF Head(s) = Head(t) THEN StrLess(Tail(s), Tail(t))
    ELSE CharCode(Head(s)) < CharCode(Head(t))

\* the sort key (random_id, term_index)
LongLess(a, b) ==
    \/ StrLess(a.random_id, b.random_id)
    \/ a.random_id = b.random_id /\ a.term_index < b.term_index

\* stable insertion: after every row that is not greater
RECURSIVE InsertStable(_, _)
InsertStable(sorted, row) ==
    IF sorted = <<>> THEN <<row>>
    ELSE IF LongLess(row, Head(sorted)) THEN <<row>> \o sorted
    ELSE <<Head(sorted)>> \o InsertStable(Tail(sorted), row)

\* sort_values(["random_id", "term_index"], kind="stable")
RECURSIVE SortLong(_)
SortLong(rows) ==
    IF rows = <<>> THEN <<>>
    ELSE InsertStable(SortLong(SubSeq(rows, 1, Len(rows) - 1)), rows[Len(rows)])

\* the position of x in seq (seq holds x once)
IndexOf(seq, x) == CHOOSE i \in 1..Len(seq) : seq[i] = x

\* the long rows of one column: melt keeps sheet order, dropna drops the
\* rows whose coerced GPA is missing
RECURSIVE MeltColumn(_, _, _)
MeltColumn(rows, col, idx) ==
    IF rows = <<>> THEN <<>>
    ELSE LET g    == ToNumeric(Head(rows).grid[col])
             rest == MeltColumn(Tail(rows), col, idx)
         IN  IF IsNa(g) THEN rest
             ELSE << [random_id  |-> Head(rows).random_id,
                      term_index |-> idx,
                      term_slot  |-> col,
                      term_gpa   |-> g.n,
                      is_summer  |-> IF col \in SummerSlots THEN 1 ELSE 0,
                      is_regular |-> IF col \in SummerSlots THEN 0 ELSE 1] >> \o rest

\* melt over the present columns, in their order; term_index comes from
\* order_map, the 1-based rank among the columns the sheet has
RECURSIVE MeltFrom(_, _, _)
MeltFrom(rows, gpa_cols, k) ==
    IF k > Len(gpa_cols) THEN <<>>
    ELSE MeltColumn(rows, gpa_cols[k], k) \o MeltFrom(rows, gpa_cols, k + 1)

LongTable(rows, cols) == SortLong(MeltFrom(rows, GpaColsOf(cols), 1))

\* the distinct student ids of the long table, in order of first appearance
RECURSIVE GroupKeys(_)
GroupKeys(long) ==
    IF long = <<>> THEN <<>>
    ELSE LET before == GroupKeys(SubSeq(long, 1, Len(long) - 1))
             id     == long[Len(long)].random_id
         IN  IF \E i \in 1..Len(before) : before[i] = id THEN before
             ELSE Append(before, id)

\* the rows of one student, in long-table order
RECURSIVE GroupRows(_, _)
GroupRows(long, id) ==
    IF long = <<>> THEN <<>>
    ELSE IF Head(long).random_id = id THEN <<Head(long)>> \o GroupRows(Tail(long), id)
    ELSE GroupRows(Tail(long), id)

\* .sum() of a sequence of integers
RECURSIVE SumOf(_)
SumOf(seq) == IF seq = <<>> THEN 0 ELSE Head(seq) + SumOf(Tail(seq))

RECURSIVE Gcd(_, _)
Gcd(a, b) == IF b = 0 THEN a ELSE Gcd(b, a % b)

Abs(a) == IF a < 0 THEN -a ELSE a

\* A slope in grade points per term, kept as the fraction num/den in lowest
\* terms (den > 0); np.nan is SlopeNaN. The float the code returns is this
\* fraction rounded; a fraction with a power of two below it is exact.
SlopeNaN == [nan |-> TRUE, num |-> 0, den |-> 1]
SlopeOf(num, den) ==
    LET g == Gcd(Abs(num), den)
    IN  [nan |-> FALSE, num |-> num \div g, den |-> den \div g]

\* A slope of the line through the origin: no centring on the means.
SlopeThroughOrigin(g) ==
    LET n   == Len(g)
        num == SumOf([i \in 1..n |-> g[i].term_index * g[i].term_gpa])
        den == SumOf([i \in 1..n |-> g[i].term_index * g[i].term_index])
    IN  IF n < 2 THEN SlopeNaN ELSE IF den > 0 THEN SlopeOf(num, 10 * den) ELSE SlopeNaN

\* slope(x_idx, y), lines 60-69, on one student's long rows. With x the term
\* indexes and y the GPAs in tenths, the centred values x - xm and y - ym are
\* kept times n: dx = n*x - sum x, dy = n*y - sum y, so that
\* num/den = sum(dx*dy) / sum(dx*dx), and one more 10 turns tenths into points.
Slope(g) ==
    LET n   == Len(g)
        sx  == SumOf([i \in 1..n |-> g[i].term_index])
        sy  == SumOf([i \in 1..n |-> g[i].term_gpa])
        dx  == [i \in 1..n |-> n * g[i].term_index - sx]
        dy  == [i \in 1..n |-> n * g[i].term_gpa - sy]
        num == SumOf([i \in 1..n |-> dx[i] * dy[i]])
        den == SumOf([i \in 1..n |-> dx[i] * dx[i]])
    IN  IF n < 2 THEN SlopeNaN ELSE IF den > 0 THEN SlopeOf(num, 10 * den) ELSE SlopeNaN

\* grp.agg(...) and the slope merged on random_id: one row of per-student
\* summaries
WideRow(long, id) ==
    LET g == GroupRows(long, id)
    IN  [random_id       |-> id,
         terms_with_gpa  |-> Len(g),
         first_term_gpa  |-> g[1].term_gpa,
         last_term_gpa   |-> g[Len(g)].term_gpa,
         gpa_trend_slope |-> Slope(g)]

WideFeatures(long) ==
    LET keys == GroupKeys(long)
    IN  [k \in 1..Len(keys) |-> WideRow(long, keys[k])]

\* line 38: the first-term labels, or the first error of the apply
FirstTermLabels(rows) == [i \in 1..Len(rows) |-> DecodePsuTerm(rows[i].first_term)]

\* the outcomes of build_term_gpa_features on a sheet. On a sheet with no
\* GPA at all the long frame is empty, DataFrameGroupBy.apply hands back a
\* DataFrame and reset_index(name=...) is a TypeError in the pandas releases
\* that know include_groups; both outcomes are kept.
ReshapeOutcomes(rows, cols) ==
    LET labels == FirstTermLabels(rows)
        long   == LongTable(rows, cols)
        ok     == [status |-> "ok", long |-> long, wide |-> WideFeatures(long),
                   first_term_label |-> labels]
    IN  IF \E i \in 1..Len(rows) : labels[i].raised
        THEN {[status |-> "raised", error |-> "ValueError"]}
        ELSE IF long = <<>>
        THEN {ok, [status |-> "raised", error |-> "TypeError"]}
        ELSE {ok}

(***************************************************************************)
(* GPA grid sheets                                                         *)
(***************************************************************************)
\* the most rows a GPA grid sheet has
MaxGpaRows == 2

\* all sheets of exactly n rows drawn from `rows`
SheetsOfLen(rows, n) == [1..n -> rows]

GpaRows(ids, firstTerms, cells, cols) ==
    [random_id : ids, first_term : firstTerms, grid : [cols -> cells]]

ReshapeIds     == { <<"B", "-", "0", "0", "9", "9", "8">>, <<"S", "-", "0", "0", "9", "9", "8">> }
ReshapeTerms   == { Num(2218), Text(<<"a", "b", "c">>) }
ReshapeCells   == { NA, Text(<<>>), Num(0), Text(<<"3", ".", "5">>) }
ReshapeColSets == { {"1st_fall", "1st_spring"}, {"1st_fall", "1st_summer"} }

ReshapeInit ==
    /\ gpaCols \in ReshapeColSets
    /\ \E n \in 0..MaxGpaRows :
          gpaSheet \in SheetsOfLen(GpaRows(ReshapeIds, ReshapeTerms, ReshapeCells, gpaCols), n)
    /\ reshaped = NotRun
    /\ IdIdle /\ TermIdle /\ ParseIdle /\ BuildIdle /\ AttemptIdle /\ RollupIdle /\ AnalysisIdle

\* build_term_gpa_features(gpa_sheet)
Reshape ==
    /\ reshaped = NotRun
    /\ reshaped' \in ReshapeOutcomes(gpaSheet, gpaCols)
    /\ UNCHANGED <<gpaCols, gpaSheet, idVars, termVars, parseVars, buildVars,
                 attemptVars, rollupVars, analysisVars>>

ReshapeNext == Reshape

SpecReshape == ReshapeInit /\ [][ReshapeNext]_vars

\* a cell that is neither NaN nor blank text
NonMissingCell(c) == c.kind = "num" \/ (c.kind = "text" /\ Strip(c.s) # <<>>)

\* C10: the long table has one row per non-missing GPA cell, student by student
\* and slot by slot, so its row count is the number of non-missing cells; a
\* missing or blank cell gives no row, and a zero GPA row comes from a zero cell.
C10_RowCount ==
    reshaped.status = "ok" =>
        LET long == reshaped.long
            rowsOf(id, c) == {k \in 1..Len(long) : long[k].random_id = id /\ long[k].term_slot = c}
            cellsOf(id, c) == {i \in 1..Len(gpaSheet) :
                                  gpaSheet[i].random_id = id /\ NonMissingCell(gpaSheet[i].grid[c])}
            zeroRows(id, c) == {k \in rowsOf(id, c) : long[k].term_gpa = 0}
            zeroCells(id, c) == {i \in cellsOf(id, c) : gpaSheet[i].grid[c] = Num(0)}
        IN  /\ Len(long) = Cardinality({p \in (1..Len(gpaSheet)) \X gpaCols :
                                           NonMissingCell(gpaSheet[p[1]].grid[p[2]])})
            /\ \A k \in 1..Len(long) : long[k].term_slot \in gpaCols
            /\ \A id \in ReshapeIds, c \in gpaCols :
                  /\ Cardinality(rowsOf(id, c)) = Cardinality(cellsOf(id, c))
                  /\ Cardinality(zeroRows(id, c)) = Cardinality(zeroCells(id, c))

\* C10 witness: a sheet with a missing cell, a blank cell, a zero GPA and a
\* text GPA has been reshaped into two long rows.
C10_Witness ==
    /\ reshaped.status = "ok"
    /\ Len(reshaped.long) = 2
    /\ \E i \in 1..Len(gpaSheet), c \in gpaCols : gpaSheet[i].grid[c] = NA
    /\ \E i \in 1..Len(gpaSheet), c \in gpaCols : gpaSheet[i].grid[c] = Text(<<>>)
    /\ \E i \in 1..Len(gpaSheet), c \in gpaCols : gpaSheet[i].grid[c] = Num(0)
    /\ \E k \in 1..Len(reshaped.long) : reshaped.long[k].term_gpa = 35

\* int-like text, as int() reads it
IntLike(c) == c.kind = "text" /\ IntOfText(c.s).ok

\* C9 (first-term half): a first-term cell that is not integer-like text gives
\* that row a null first-term label, leaves the other rows' labels decoded, and
\* build_term_gpa_features still completes.
C9_BadTermCellIsContained ==
    (reshaped # NotRun /\ \E i \in 1..Len(gpaSheet) :
                              gpaSheet[i].first_term.kind = "text" /\ ~IntLike(gpaSheet[i].first_term))
    => /\ reshaped.status = "ok"
       /\ \A i \in 1..Len(gpaSheet) :
             IF gpaSheet[i].first_term.kind = "text" /\ ~IntLike(gpaSheet[i].first_term)
             THEN reshaped.first_term_label[i] = NoneTriple
             ELSE reshaped.first_term_label[i] = DecodePsuTerm(gpaSheet[i].first_term)

(***************************************************************************)
(* Workbook build: build_information_only                                  *)
(***************************************************************************)
\* lines 68-69 and 94-95: random_id normalized, merge_id added
WithMergeId(rows) ==
    [i \in 1..Len(rows) |->
        LET id == NormalizeId(rows[i].random_id)
        IN  [rows[i] EXCEPT !.random_id = id] @@ [merge_id |-> MakeMergeId(id)]]

\* A dedup that keeps the last row of each merge_id.
RECURSIVE DropDuplicatesKeepLast(_)
DropDuplicatesKeepLast(rows) ==
    IF rows = <<>> THEN <<>>
    ELSE LET rest == DropDuplicatesKeepLast(Tail(rows))
         IN  IF \E i \in 1..Len(rest) : rest[i].merge_id = Head(rows).merge_id
             THEN rest
             ELSE <<Head(rows)>> \o rest

\* drop_duplicates(subset="merge_id", keep="first")
RECURSIVE DropDuplicates(_)
DropDuplicates(rows) ==
    IF rows = <<>> THEN <<>>
    ELSE LET before == DropDuplicates(SubSeq(rows, 1, Len(rows) - 1))
             last   == rows[Len(rows)]
         IN  IF \E i \in 1..Len(before) : before[i].merge_id = last.merge_id
             THEN before
             ELSE Append(before, last)

\* line 111 and line 117: the raw grid with its slot columns coerced
RawGpaGrid(rows, cols) ==
    [i \in 1..Len(rows) |->
        [merge_id   |-> rows[i].merge_id,
         first_term |-> rows[i].first_term,
         grid       |-> [c \in cols |-> ToNumeric(rows[i].grid[c])]]]

\* lines 123-124: gpa_wide with the merge_id of its random_id
GpaWideKeyed(wide) ==
    [k \in 1..Len(wide) |->
        [merge_id |-> MakeMergeId(wide[k].random_id), terms_with_gpa |-> wide[k].terms_with_gpa]]

\* the rows of `right` whose key column `on` holds m, in order
RECURSIVE Matches(_, _, _)
Matches(right, on, m) ==
    IF right = <<>> THEN <<>>
    ELSE IF Head(right)[on] = m THEN <<Head(right)>> \o Matches(Tail(right), on, m)
    ELSE Matches(Tail(right), on, m)

\* merge_nondup: left.merge(right[keep], on=on, how="left"). Each left row
\* comes once per match in right, in right's order, and once with `blank` when
\* nothing matches; a column both sides have keeps the left side's value.
RECURSIVE LeftJoin(_, _, _, _)
LeftJoin(left, right, on, blank) ==
    IF left = <<>> THEN <<>>
    ELSE LET l    == Head(left)
             m    == Matches(right, on, l[on])
             here == IF m = <<>> THEN <<l @@ blank>>
                     ELSE [k \in 1..Len(m) |-> l @@ m[k]]
         IN  here \o LeftJoin(Tail(left), right, on, blank)

\* a difference of two numeric columns; NaN where either side is NaN
Minus(a, b) == IF IsNa(a) \/ IsNa(b) THEN NA ELSE Num(a.n - b.n)

\* prepare_information_features on an info sheet that has the three CGPA
\* columns: one row per info row, keyed by random_id, with the differences
\* cgpa_gap and peak_minus_etm
InfoFeatures(rows) ==
    [i \in 1..Len(rows) |->
        LET g == ToNumeric(rows[i].graduating_cgpa)
            e == ToNumeric(rows[i].cgpa_at_etm_to_any_campus)
            h == ToNumeric(rows[i].highest_cgpa_during_credit_window)
        IN  [random_id      |-> rows[i].random_id,
             cgpa_gap       |-> Minus(g, e),
             peak_minus_etm |-> Minus(h, e)]]

NoInfoFeatures == [cgpa_gap |-> NA, peak_minus_etm |-> NA]

NoGridColumns(cols) == [first_term |-> NA, grid |-> [c \in cols |-> NA]]
NoWideColumns == [terms_with_gpa |-> NA]

\* find_gpa_sheet: the sheet needs random_id, 1st_term and one first-year slot
GpaSheetFound(cols) == cols \cap {"1st_fall", "1st_spring", "1st_summer"} # {}

\* lines 131-134: first_term_label on the merged rows
WithFirstTermLabel(rows) ==
    [i \in 1..Len(rows) |-> rows[i] @@ [first_term_label |-> DecodePsuTerm(rows[i].first_term)]]

\* the outcomes of build_information_only: the wide table written, or the error
BuildOutcomes(info, gpa, cols) ==
    LET summary == DropDuplicates(WithMergeId(info))
        master0 == LeftJoin(summary, InfoFeatures(summary), "random_id", NoInfoFeatures)
        df_gpa  == WithMergeId(gpa)
    IN  IF ~GpaSheetFound(cols)
        THEN {[status |-> "ok", master |-> master0, long |-> <<>>]}
        ELSE { IF r.status # "ok" THEN r
               ELSE LET master1 == LeftJoin(master0, RawGpaGrid(df_gpa, cols), "merge_id", NoGridColumns(cols))
                        master2 == LeftJoin(master1, GpaWideKeyed(r.wide), "merge_id", NoWideColumns)
                        master3 == WithFirstTermLabel(master2)
                    IN  IF \E i \in 1..Len(master3) : master3[i].first_term_label.raised
                        THEN [status |-> "raised", error |-> "ValueError"]
                        ELSE [status |-> "ok", master |-> master3, long |-> r.long]
               : r \in ReshapeOutcomes(df_gpa, cols) }

\* the most rows an info sheet has
MaxInfoRows == 2

\* one info row: a raw id and the three CGPA columns
InfoRow(id, graduating, at_etm, highest) ==
    [random_id |-> id, graduating_cgpa |-> graduating,
     cgpa_at_etm_to_any_campus |-> at_etm, highest_cgpa_during_credit_window |-> highest]

\* the info sheet's rows: three raw ids, each with its own graduating CGPA
InfoRows ==
    { InfoRow(<<"B", "-", "0", "0", "9", "9", "8">>, Num(31), Num(30), Num(36)),
      InfoRow(<<"0", "0", "9", "9", "8", "NBSP">>,   Num(32), NA,      Num(35)),
      InfoRow(<<"B", "-", "0", "0", "7", "7", "7">>, Num(33), Num(28), Text(<<"3", ".", "4">>)) }

BuildGpaIds   == { <<"s", "ENDASH", "0", "0", "9", "9", "8">>,
                   <<"0", "0", "9", "9", "8">>,
                   <<"S", "-", "0", "0", "7", "7", "7">> }
BuildTerms    == { Num(2218), Text(<<"a", "b", "c">>) }
BuildCells    == { Num(0), Num(35) }
BuildColSets  == { {"1st_fall"}, {} }

BuildInit ==
    /\ \E n \in 0..MaxInfoRows : infoSheet \in SheetsOfLen(InfoRows, n)
    /\ gpaCols \in BuildColSets
    /\ \E n \in 0..(IF gpaCols = {} THEN 0 ELSE MaxGpaRows) :
          gpaSheet \in SheetsOfLen(GpaRows(BuildGpaIds, BuildTerms, BuildCells, gpaCols), n)
    /\ reshaped = NotRun
    /\ built = NotRun
    /\ IdIdle /\ TermIdle /\ ParseIdle /\ AttemptIdle /\ RollupIdle /\ AnalysisIdle

\* build_information_only(excel_path, out_csv)
Build ==
    /\ built = NotRun
    /\ built' \in BuildOutcomes(infoSheet, gpaSheet, gpaCols)
    /\ UNCHANGED <<infoSheet, gpaCols, gpaSheet, reshaped, idVars, termVars, parseVars,
                 attemptVars, rollupVars, analysisVars>>

BuildNext == Build

SpecBuild == BuildInit /\ [][BuildNext]_vars

LetterChars == UpperChars \cup LowerChars
DashVariants == DashChars \cup {"MINUS"}
SpaceVariants == SpaceChars \cup {"ZWSP"}

\* the digits of a text, in order
DigitsOf(s) == KeepChars(s, DigitChars)

\* a raw id that is a run of 5+ digits with at most an alphabetic prefix, dash
\* variants and whitespace variants around it
PrefixedRun(s) ==
    /\ Len(DigitsOf(s)) >= MinDigitRun
    /\ \A i \in 1..Len(s) : s[i] \in DigitChars \cup LetterChars \cup DashVariants \cup SpaceVariants
    /\ \A i, j \in 1..Len(s) : (s[i] \in LetterChars /\ s[j] \in DigitChars) => i < j

\* two raw ids of the same student: the same digit run, differently dressed
SameStudent(x, y) == PrefixedRun(x) /\ PrefixedRun(y) /\ DigitsOf(x) = DigitsOf(y)

\* the first row of the info sheet with the canonical id of row i
FirstSeen(i) ==
    Min({k \in 1..Len(infoSheet) :
            MakeMergeId(NormalizeId(infoSheet[k].random_id)) =
            MakeMergeId(NormalizeId(infoSheet[i].random_id))})

\* C3: an info row and a GPA row whose raw ids are the same digit run, dressed
\* differently, get the same join key (the digit run), and after the build the
\* wide table holds the student's info row joined with that GPA row.
C3_VariantsJoin ==
    (built # NotRun /\ built.status = "ok") =>
        \A i \in 1..Len(infoSheet), j \in 1..Len(gpaSheet) :
            SameStudent(infoSheet[i].random_id, gpaSheet[j].random_id) =>
                \E k \in 1..Len(built.master) :
                    /\ built.master[k].merge_id = DigitsOf(gpaSheet[j].random_id)
                    /\ built.master[k].merge_id = DigitsOf(infoSheet[i].random_id)
                    /\ built.master[k].graduating_cgpa = infoSheet[FirstSeen(i)].graduating_cgpa
                    /\ built.master[k].first_term = gpaSheet[j].first_term
                    /\ \A c \in gpaCols : built.master[k].grid[c] = gpaSheet[j].grid[c]

\* C3 witness: the info row B-00998 and a GPA row s(en dash)00998 with a GPA
\* have been built into one wide table.
C3_Witness ==
    /\ built # NotRun /\ built.status = "ok"
    /\ \E i \in 1..Len(infoSheet), j \in 1..Len(gpaSheet) :
          /\ infoSheet[i].random_id = <<"B", "-", "0", "0", "9", "9", "8">>
          /\ gpaSheet[j].random_id = <<"s", "ENDASH", "0", "0", "9", "9", "8">>
          /\ gpaSheet[j].grid["1st_fall"] = Num(35)

\* C4: the wide table has exactly one row per canonical id.
C4_OneRowPerCanonicalId ==
    (built # NotRun /\ built.status = "ok") =>
        \A i, j \in 1..Len(built.master) :
            built.master[i].merge_id = built.master[j].merge_id => i = j

\* a GPA-grid cause of an error: a first-term cell int() cannot read, or a grid
\* sheet that was found and holds no GPA at all
BadTermCell == \E j \in 1..Len(gpaSheet) : DecodePsuTerm(gpaSheet[j].first_term).raised
NoGpaAtAll  == GpaSheetFound(gpaCols) /\
               \A j \in 1..Len(gpaSheet), c \in gpaCols : IsNa(ToNumeric(gpaSheet[j].grid[c]))

\* C5: of the info rows with one canonical id the wide table keeps the first in
\* sheet order and none of the others, and duplicates raise nothing: the build
\* fails only for a cause in the GPA grid.
C5_FirstSeenWins ==
    built # NotRun =>
        /\ built.status = "raised" =>
              \/ built.error = "ValueError" /\ BadTermCell
              \/ built.error = "TypeError" /\ NoGpaAtAll
        /\ built.status = "ok" =>
              /\ \A i \in 1..Len(infoSheet) :
                    \E k \in 1..Len(built.master) :
                        /\ built.master[k].merge_id = MakeMergeId(NormalizeId(infoSheet[i].random_id))
                        /\ built.master[k].random_id = NormalizeId(infoSheet[FirstSeen(i)].random_id)
              /\ \A k \in 1..Len(built.master) :
                    \E i \in 1..Len(infoSheet) :
                        /\ FirstSeen(i) = i
                        /\ built.master[k].random_id = NormalizeId(infoSheet[i].random_id)
                        /\ built.master[k].graduating_cgpa = infoSheet[i].graduating_cgpa
                        /\ built.master[k].merge_id = MakeMergeId(NormalizeId(infoSheet[i].random_id))

\* C5 witness: two info rows with different raw ids and one canonical id have
\* been built, and the wide table holds the first.
C5_Witness ==
    /\ built # NotRun /\ built.status = "ok"
    /\ Len(infoSheet) = 2
    /\ Len(gpaSheet) = 2
    /\ infoSheet[1].random_id # infoSheet[2].random_id
    /\ FirstSeen(2) = 1
    /\ \A k \in 1..Len(built.master) :
          built.master[k].graduating_cgpa = infoSheet[1].graduating_cgpa

(***************************************************************************)
(* Attempt-outcome parser: parse_period_outcome                            *)
(* A pattern is a sequence of elements: a literal (matched without regard  *)
(* to case, re.I), an optional literal, \s*, \s+, \d+ or .*                *)
(***************************************************************************)
Lit(w)  == [t |-> "lit", w |-> w]
Opt(w)  == [t |-> "opt", w |-> w]
Ws0     == [t |-> "ws0", w |-> <<>>]
Ws1     == [t |-> "ws1", w |-> <<>>]
Digits1 == [t |-> "digits", w |-> <<>>]
AnyText == [t |-> "any", w |-> <<>>]

\* the literal w stands in s at position i
LitAt(s, i, w) ==
    /\ i + Len(w) - 1 <= Len(s)
    /\ \A k \in 1..Len(w) : UpperOf(s[i + k - 1]) = UpperOf(w[k])

\* the run s[i..j-1] consists of characters of `class`
RunOf(s, i, j, class) == \A k \in i..(j - 1) : s[k] \in class

\* the positions at which element e can end when it starts at position i
StepEnds(e, s, i) ==
    CASE e.t = "lit"    -> IF LitAt(s, i, e.w) THEN {i + Len(e.w)} ELSE {}
      [] e.t = "opt"    -> {i} \cup (IF LitAt(s, i, e.w) THEN {i + Len(e.w)} ELSE {})
      [] e.t = "ws0"    -> {j \in i..(Len(s) + 1) : RunOf(s, i, j, SpaceChars)}
      [] e.t = "ws1"    -> {j \in (i + 1)..(Len(s) + 1) : RunOf(s, i, j, SpaceChars)}
      [] e.t = "digits" -> {j \in (i + 1)..(Len(s) + 1) : RunOf(s, i, j, DigitChars)}
      [] e.t = "any"    -> i..(Len(s) + 1)

\* the positions at which elements k.. of the pattern can end, from the starts P
RECURSIVE MatchEnds(_, _, _, _)
MatchEnds(pat, k, s, P) ==
    IF k > Len(pat) THEN P
    ELSE MatchEnds(pat, k + 1, s, UNION {StepEnds(pat[k], s, i) : i \in P})

\* pattern.match(txt) for a pattern written ^...$
FullMatch(pat, s) == (Len(s) + 1) \in MatchEnds(pat, 1, s, {1})

\* re.search(pattern, txt): the starts at which the pattern matches
SearchStarts(pat, s) == {i \in 1..(Len(s) + 1) : MatchEnds(pat, 1, s, {i}) # {}}

\* group(1) of a search whose pattern opens with (\d+): the leftmost start,
\* the longest digit run from it that lets the rest of the pattern match
SearchDigitsGroup(pat, s) ==
    LET i == Min(SearchStarts(pat, s))
        j == Max({e \in StepEnds(pat[1], s, i) : MatchEnds(pat, 2, s, {e}) # {}})
    IN  SubSeq(s, i, j - 1)

W_Never    == <<"N", "e", "v", "e", "r">>
W_Enrolled == <<"E", "n", "r", "o", "l", "l", "e", "d">>
W_Attempt  == <<"A", "t", "t", "e", "m", "p", "t">>
W_Attempts == <<"A", "t", "t", "e", "m", "p", "t", "s">>
W_Only     == <<"O", "n", "l", "y">>
W_Both     == <<"B", "o", "t", "h">>
W_ABC      == <<"A", "B", "C">>
W_DFW      == <<"D", "F", "W">>

\* ATT_PATTERNS
PatNever       == <<Ws0, Lit(W_Never), Ws1, Lit(W_Enrolled), Ws0>>
PatFirstPass   == <<Ws0, Lit(<<"1">>), Opt(<<"s", "t">>), Ws0, Lit(W_Attempt), Ws0, Lit(<<"=">>),
                    Ws0, Lit(W_ABC), Ws0>>
PatOnly1Dfw    == <<Ws0, Lit(W_Only), Ws1, Lit(<<"1">>), Ws0, Lit(W_Attempt), Ws0, Lit(<<"=">>),
                    Ws0, Lit(W_DFW), Ws0>>
PatTwoThenAbc  == <<Ws0, Lit(<<"2">>), Ws0, Lit(W_Attempts), Ws0, Lit(<<"(">>), Ws0,
                    Lit(<<"1", "s", "t">>), Ws0, Lit(<<"=">>), Ws0, Lit(W_DFW), Ws0, Lit(<<",">>),
                    Ws0, Lit(<<"2", "n", "d">>), Ws0, Lit(<<"=">>), Ws0, Lit(W_ABC), Ws0,
                    Lit(<<")">>), Ws0>>
PatTwoBothDfw  == <<Ws0, Lit(<<"2">>), Ws0, Lit(W_Attempts), Ws0, Lit(<<"(">>), Ws0, Lit(W_Both),
                    Ws0, Lit(<<"=">>), Ws0, Lit(W_DFW), Ws0, Lit(<<")">>), Ws0>>
\* the fallbacks (\d+)\s*Attempts?.*ABC and (\d+)\s*Attempts?
PatAnyPass     == <<Digits1, Ws0, Lit(W_Attempt), Opt(<<"s">>), AnyText, Lit(W_ABC)>>
PatAnyAttempts == <<Digits1, Ws0, Lit(W_Attempt), Opt(<<"s">>)>>

\* an optional integer: <<>> is None, <<k>> is k
None    == <<>>
Some(k) == <<k>>

Period(attempts, passed, idx) == [attempts |-> attempts, pass |-> passed, pass_idx |-> idx]

\* the safe default of parse_period_outcome
SafeDefault == Period(0, FALSE, None)

\* parse_period_outcome on a text
ParsePeriodText(s) ==
    LET txt == Strip(s)
    IN  IF txt = <<>> \/ FullMatch(PatNever, txt) THEN Period(0, FALSE, None)
        ELSE IF FullMatch(PatFirstPass, txt) THEN Period(1, TRUE, Some(1))
        ELSE IF FullMatch(PatOnly1Dfw, txt) THEN Period(1, FALSE, None)
        ELSE IF FullMatch(PatTwoThenAbc, txt) THEN Period(2, TRUE, Some(2))
        ELSE IF FullMatch(PatTwoBothDfw, txt) THEN Period(2, FALSE, None)
        ELSE IF SearchStarts(PatAnyPass, txt) # {}
        THEN LET k == DigitsValue(SearchDigitsGroup(PatAnyPass, txt)) IN Period(k, TRUE, Some(k))
        ELSE IF SearchStarts(PatAnyAttempts, txt) # {}
        THEN Period(DigitsValue(SearchDigitsGroup(PatAnyAttempts, txt)), FALSE, None)
        ELSE SafeDefault

\* parse_period_outcome on one cell: None and NaN give the default at once
ParsePeriodOutcome(c) ==
    IF IsNa(c) THEN SafeDefault ELSE ParsePeriodText(c.s)

\* str.lower(), character by character
LowerOf(c) == IF c \in UpperChars THEN LowerAlphabet[LetterIndex(UpperAlphabet, c)] ELSE c
Lower(s) == [i \in 1..Len(s) |-> LowerOf(s[i])]

\* outcome texts: a phrase, as written, in capitals or in small letters, with
\* something before and after it
OutcomePhrases ==
    { <<"N", "e", "v", "e", "r", " ", "E", "n", "r", "o", "l", "l", "e", "d">>,
      <<"1", "s", "t", " ", "A", "t", "t", "e", "m", "p", "t", "=", "A", "B", "C">>,
      <<"1", " ", "A", "t", "t", "e", "m", "p", "t", " ", "=", " ", "A", "B", "C">>,
      <<"O", "n", "l", "y", " ", "1", " ", "A", "t", "t", "e", "m", "p", "t", "=", "D", "F", "W">>,
      <<"2", " ", "A", "t", "t", "e", "m", "p", "t", "s", " ", "(", "1", "s", "t", "=", "D", "F", "W", ",", " ", "2", "n", "d", "=", "A", "B", "C", ")">>,
      <<"2", " ", "A", "t", "t", "e", "m", "p", "t", "s", " ", "(", "B", "o", "t", "h", "=", "D", "F", "W", ")">>,
      <<"3", " ", "A", "t", "t", "e", "m", "p", "t", "s", " ", "(", "2", " ", "D", "F", "W", ",", " ", "3", "r", "d", "=", "A", "B", "C", ")">>,
      <<"4", " ", "A", "t", "t", "e", "m", "p", "t", "s">>,
      <<"1", "2", " ", "A", "t", "t", "e", "m", "p", "t", "s", " ", "A", "B", "C">>,
      <<"3", " ", "A", "t", "t", "e", "m", "p", "t", "=", "D", "F", "W">>,
      <<"W", "i", "t", "h", "d", "r", "a", "w", "n">>,
      <<"A", "B", "C">>,
      <<>>,
      <<"A", "t", "t", "e", "m", "p", "t", " ", "2">>,
      <<"n", ".", "a", ".">> }
OutcomePrefixes == { <<>>, <<" ">>, <<"x", " ">> }
OutcomeSuffixes == { <<>>, <<" ">>, <<" ", "A", "B", "C">>, <<"?">> }
OutcomeTexts ==
    UNION { {p \o c \o x, Upper(p \o c \o x), Lower(p \o c \o x)} :
            <<p, c, x>> \in OutcomePrefixes \X OutcomePhrases \X OutcomeSuffixes }
OutcomeCells == {NA} \cup {Text(s) : s \in OutcomeTexts}

ParseInit ==
    /\ periodTxt \in OutcomeCells
    /\ parsed = NotRun
    /\ IdIdle /\ TermIdle /\ GpaIdle /\ BuildIdle /\ AttemptIdle /\ RollupIdle /\ AnalysisIdle

\* parse_period_outcome(s)
ParsePeriod ==
    /\ parsed = NotRun
    /\ parsed' = [status |-> "ok", value |-> ParsePeriodOutcome(periodTxt)]
    /\ UNCHANGED <<periodTxt, idVars, termVars, gpaVars, buildVars,
                 attemptVars, rollupVars, analysisVars>>

ParseNext == ParsePeriod

SpecParse == ParseInit /\ [][ParseNext]_vars

\* the word "attempt" stands somewhere in the text, in any case
MentionsAttempt(s) == \E i \in 1..Len(s) : LitAt(s, i, W_Attempt)

\* C9 (outcome-text half): parse_period_outcome returns for every cell, and a
\* text that does not mention an attempt parses as (0 attempts, no pass, no
\* pass index).
C9_UnrecognizedTextSafeDefault ==
    parsed # NotRun =>
        /\ parsed.status = "ok"
        /\ (periodTxt.kind = "text" /\ ~MentionsAttempt(periodTxt.s)) => parsed.value = SafeDefault

\* C9 (outcome-text half) witness: a text that is no known phrase has been parsed.
C9_UnrecognizedTextWitness ==
    /\ parsed # NotRun
    /\ periodTxt = Text(<<"W", "i", "t", "h", "d", "r", "a", "w", "n", "?">>)

(***************************************************************************)
(* Term index and uniqueness in the long table                             *)
(***************************************************************************)
\* C11: every long row's term_index is the 1-based position of its slot in the
\* 25-slot canonical order SEM_COLS_ORDERED, whichever slot columns the grid has.
C11_CanonicalTermIndex ==
    (reshaped # NotRun /\ reshaped.status = "ok") =>
        \A k \in 1..Len(reshaped.long) :
            reshaped.long[k].term_index = IndexOf(SEM_COLS_ORDERED, reshaped.long[k].term_slot)

\* C12: the long table holds no two rows with the same (student id, term_index).
C12_NoDuplicateStudentTerm ==
    (reshaped # NotRun /\ reshaped.status = "ok") =>
        \A i, j \in 1..Len(reshaped.long) :
            (/\ reshaped.long[i].random_id = reshaped.long[j].random_id
             /\ reshaped.long[i].term_index = reshaped.long[j].term_index) => i = j

(***************************************************************************)
(* GPA trajectories: grids of three slots with numeric GPAs                *)
(***************************************************************************)
TrajectoryIds     == { <<"0", "0", "9", "9", "8">>, <<"0", "0", "7", "7", "7">> }
TrajectoryTerms   == { Num(2218) }
TrajectoryCells   == { NA, Num(30), Num(35) }
TrajectoryColSets == { {"1st_fall", "1st_spring", "2nd_fall"} }

TrajectoryInit ==
    /\ gpaCols \in TrajectoryColSets
    /\ \E n \in 0..MaxGpaRows :
          gpaSheet \in SheetsOfLen(GpaRows(TrajectoryIds, TrajectoryTerms, TrajectoryCells, gpaCols), n)
    /\ reshaped = NotRun
    /\ IdIdle /\ TermIdle /\ ParseIdle /\ BuildIdle /\ AttemptIdle /\ RollupIdle /\ AnalysisIdle

SpecTrajectory == TrajectoryInit /\ [][ReshapeNext]_vars

\* the long rows of one student, as the reshape wrote them
StudentRows(id) == GroupRows(reshaped.long, id)

\* C13: for every student of the wide table, gpa_trend_slope is
\* (n*sum(xy) - sum(x)*sum(y)) / (n*sum(x^2) - sum(x)^2), which is
\* sum((x-mean x)(y-mean y)) / sum((x-mean x)^2), over the student's
\* (term_index, term_gpa) rows; it is null when there are fewer than 2 rows or
\* all term_index values are equal; the rows (1, 3.0), (2, 3.5) give 1/2.
C13_SlopeIsLeastSquares ==
    (reshaped # NotRun /\ reshaped.status = "ok") =>
        \A w \in 1..Len(reshaped.wide) :
            LET g   == StudentRows(reshaped.wide[w].random_id)
                n   == Len(g)
                sx  == SumOf([i \in 1..n |-> g[i].term_index])
                sy  == SumOf([i \in 1..n |-> g[i].term_gpa])
                sxy == SumOf([i \in 1..n |-> g[i].term_index * g[i].term_gpa])
                sxx == SumOf([i \in 1..n |-> g[i].term_index * g[i].term_index])
                s   == reshaped.wide[w].gpa_trend_slope
            IN  /\ s.nan <=> (n < 2 \/ \A i, j \in 1..n : g[i].term_index = g[j].term_index)
                /\ ~s.nan => /\ s.den > 0
                             /\ s.num * 10 * (n * sxx - sx * sx) = s.den * (n * sxy - sx * sy)
                /\ (/\ n = 2
                    /\ g[1].term_index = 1 /\ g[1].term_gpa = 30
                    /\ g[2].term_index = 2 /\ g[2].term_gpa = 35) => s = [nan |-> FALSE, num |-> 1, den |-> 2]

\* C13 witness: a student with exactly the rows (1, 3.0) and (2, 3.5), another
\* with a single row, both summarised.
C13_Witness ==
    /\ reshaped # NotRun /\ reshaped.status = "ok"
    /\ \E w \in 1..Len(reshaped.wide) :
          LET g == StudentRows(reshaped.wide[w].random_id)
          IN  /\ Len(g) = 2
              /\ g[1].term_index = 1 /\ g[1].term_gpa = 30
              /\ g[2].term_index = 2 /\ g[2].term_gpa = 35
              /\ reshaped.wide[w].gpa_trend_slope.num = 1
    /\ \E w \in 1..Len(reshaped.wide) : reshaped.wide[w].gpa_trend_slope.nan

(***************************************************************************)
(* Course mastery: outcome_is_pass, _label_course_outcome and              *)
(* compute_attempts_ay_model                                               *)
(***************************************************************************)
\* w in s, for Python's substring test
Contains(s, w) == \E i \in 1..(Len(s) - Len(w) + 1) : SubSeq(s, i, i + Len(w) - 1) = w

\* outcome_is_pass(x). str() of a number holds no letter A, B or C.
OutcomeIsPass(c) ==
    IF IsNa(c) \/ c.kind = "num" THEN FALSE
    ELSE LET xs == Upper(c.s)
         IN  IF Contains(xs, <<"C", "-">>) THEN FALSE
             ELSE \/ Contains(xs, <<"P", "A", "S", "S">>)
                  \/ Contains(xs, <<"A">>)
                  \/ Contains(xs, <<"B">>)
                  \/ Contains(xs, <<"C">>)

\* A label: its text and, for "No pass after N attempt(s)", the N the f-string
\* writes in place of the letter N (0 in the labels without a number).
Label(text, n) == [text |-> text, n |-> n]

\* A labelling that looks at the attempts only.
LabelByAttemptsOnly(total_attempts, pass_on) ==
    IF total_attempts = 0 THEN Label("Never enrolled", 0)
    ELSE Label(IF total_attempts # 1 THEN "No pass after N attempts" ELSE "No pass after N attempt",
               total_attempts)

\* _label_course_outcome(total_attempts, pass_on); pass_on is None or Some(k)
LabelCourseOutcome(total_attempts, pass_on) ==
    IF pass_on # None
    THEN CASE pass_on[1] = 1 -> Label("Pass on 1st attempt", 0)
           [] pass_on[1] = 2 -> Label("Pass on 2nd attempt", 0)
           [] pass_on[1] = 3 -> Label("Pass on 3rd attempt", 0)
           [] OTHER          -> Label("Requires more than three attempts", 0)
    ELSE IF total_attempts = 0 THEN Label("Never enrolled", 0)
    ELSE Label(IF total_attempts # 1 THEN "No pass after N attempts" ELSE "No pass after N attempt",
               total_attempts)

\* the triple compute_attempts_ay_model returns; attempts_to_abc is None for NaN
Mastery(attempts_to_abc, label, total_attempts) ==
    [attempts_to_abc |-> attempts_to_abc, label |-> label, total_attempts |-> total_attempts]

\* A model that takes AY1's snapshot whenever AY1 has one.
ComputeAttemptsAy1First(a1, a2, final) ==
    LET p1   == ParsePeriodOutcome(a1)
        p2   == ParsePeriodOutcome(a2)
        snap == IF p1.attempts > 0 \/ p1.pass THEN p1 ELSE p2
    IN  IF snap.pass
        THEN Mastery(snap.pass_idx, LabelCourseOutcome(snap.pass_idx[1], snap.pass_idx), snap.pass_idx[1])
        ELSE IF OutcomeIsPass(final)
        THEN Mastery(Some(snap.attempts + 1),
                     LabelCourseOutcome(snap.attempts + 1, Some(snap.attempts + 1)), snap.attempts + 1)
        ELSE IF snap.attempts = 0 THEN Mastery(None, Label("Never enrolled", 0), 0)
        ELSE Mastery(None, LabelCourseOutcome(snap.attempts, None), snap.attempts)

\* compute_attempts_ay_model(ay1, ay2, final_outcome)
ComputeAttemptsAyModel(a1, a2, final) ==
    LET p1   == ParsePeriodOutcome(a1)
        p2   == ParsePeriodOutcome(a2)
        has_ay2_snapshot == p2.attempts > 0 \/ p2.pass
        snap == IF has_ay2_snapshot THEN p2 ELSE p1
    IN  IF snap.pass
        THEN Mastery(snap.pass_idx, LabelCourseOutcome(snap.pass_idx[1], snap.pass_idx), snap.pass_idx[1])
        ELSE IF OutcomeIsPass(final)
        THEN Mastery(Some(snap.attempts + 1),
                     LabelCourseOutcome(snap.attempts + 1, Some(snap.attempts + 1)), snap.attempts + 1)
        ELSE IF snap.attempts = 0 THEN Mastery(None, Label("Never enrolled", 0), 0)
        ELSE Mastery(None, LabelCourseOutcome(snap.attempts, None), snap.attempts)

\* the AY-period cells and the final-outcome cells of the runs
AyCells ==
    { NA,
      Text(<<"N", "e", "v", "e", "r", " ", "E", "n", "r", "o", "l", "l", "e", "d">>),
      Text(<<"1", "s", "t", " ", "A", "t", "t", "e", "m", "p", "t", "=", "A", "B", "C">>),
      Text(<<"O", "n", "l", "y", " ", "1", " ", "A", "t", "t", "e", "m", "p", "t", "=", "D", "F", "W">>),
      Text(<<"2", " ", "A", "t", "t", "e", "m", "p", "t", "s", " ", "(", "1", "s", "t", "=", "D", "F", "W", ",", " ", "2", "n", "d", "=", "A", "B", "C", ")">>),
      Text(<<"2", " ", "A", "t", "t", "e", "m", "p", "t", "s", " ", "(", "B", "o", "t", "h", "=", "D", "F", "W", ")">>),
      Text(<<"3", " ", "A", "t", "t", "e", "m", "p", "t", "s", " ", "(", "2", " ", "D", "F", "W", ",", " ", "3", "r", "d", "=", "A", "B", "C", ")">>),
      Text(<<"3", " ", "A", "t", "t", "e", "m", "p", "t", "s">>),
      Text(<<"5", " ", "a", "t", "t", "e", "m", "p", "t", "s", ",", " ", "l", "a", "s", "t", " ", "A", "B", "C">>),
      Text(<<"0", " ", "A", "t", "t", "e", "m", "p", "t", "s", " ", "A", "B", "C">>),
      Text(<<"W", "i", "t", "h", "d", "r", "a", "w", "n">>) }
FinalCells ==
    { NA,
      Text(<<"P", "a", "s", "s">>),
      Text(<<"p", "a", "s", "s", "e", "d", " ", "l", "a", "t", "e">>),
      Text(<<"A", "B", "C">>),
      Text(<<"C">>),
      Text(<<"b", "+">>),
      Text(<<"C", "-">>),
      Text(<<"A", ",", " ", "t", "h", "e", "n", " ", "C", "-">>),
      Text(<<"D", "F", "W">>),
      Text(<<"D">>),
      Text(<<"W">>),
      Text(<<"W", "i", "t", "h", "d", "r", "a", "w", "n">>),
      Text(<<"F", "a", "i", "l">>),
      Text(<<"I", "n", "c", "o", "m", "p", "l", "e", "t", "e">>),
      Text(<<>>),
      Text(<<"n", ".", "d", ".">>) }

AttemptInit ==
    /\ ay1 \in AyCells
    /\ ay2 \in AyCells
    /\ finalOutcome \in FinalCells
    /\ finalPass = NotRun
    /\ attempt = NotRun
    /\ IdIdle /\ TermIdle /\ ParseIdle /\ GpaIdle /\ BuildIdle /\ RollupIdle /\ AnalysisIdle

\* outcome_is_pass(final_outcome)
ClassifyFinal ==
    /\ finalPass = NotRun
    /\ finalPass' = [status |-> "ok", value |-> OutcomeIsPass(finalOutcome)]
    /\ UNCHANGED <<ay1, ay2, finalOutcome, attempt,
                   idVars, termVars, parseVars, gpaVars, buildVars, rollupVars, analysisVars>>

\* compute_attempts_ay_model(ay1, ay2, final_outcome)
ComputeAttempts ==
    /\ attempt = NotRun
    /\ attempt' = [status |-> "ok", value |-> ComputeAttemptsAyModel(ay1, ay2, finalOutcome)]
    /\ UNCHANGED <<ay1, ay2, finalOutcome, finalPass,
                   idVars, termVars, parseVars, gpaVars, buildVars, rollupVars, analysisVars>>

AttemptNext == ClassifyFinal \/ ComputeAttempts

SpecAttempts == AttemptInit /\ [][AttemptNext]_vars

\* the snapshot the claims speak of: AY2's when it shows an attempt or a pass
Snapshot1 == ParsePeriodOutcome(ay1)
Snapshot2 == ParsePeriodOutcome(ay2)
ChosenSnapshot == IF Snapshot2.attempts > 0 \/ Snapshot2.pass THEN Snapshot2 ELSE Snapshot1

PassLabels == { "Pass on 1st attempt", "Pass on 2nd attempt", "Pass on 3rd attempt",
                "Requires more than three attempts" }
NoPassLabels == { "Never enrolled", "No pass after N attempt", "No pass after N attempts" }

\* C14: when the chosen snapshot (AY2's if it shows an attempt or a pass, else
\* AY1's) shows a pass at index k, the result is (k, a pass label, k), the
\* label being the literal one for k = 1, 2, 3; '1st Attempt=ABC' with AY2
\* missing gives (1, 'Pass on 1st attempt', 1), and 'Only 1 Attempt=DFW' with
\* '2 Attempts (1st=DFW, 2nd=ABC)' gives (2, 'Pass on 2nd attempt', 2).
C14_ChosenSnapshotPass ==
    attempt # NotRun =>
        /\ ChosenSnapshot.pass =>
              LET k == ChosenSnapshot.pass_idx[1]
              IN  /\ attempt.value.attempts_to_abc = Some(k)
                  /\ attempt.value.total_attempts = k
                  /\ attempt.value.label.text \in PassLabels
                  /\ k = 1 => attempt.value.label.text = "Pass on 1st attempt"
                  /\ k = 2 => attempt.value.label.text = "Pass on 2nd attempt"
                  /\ k = 3 => attempt.value.label.text = "Pass on 3rd attempt"
        /\ (ay1 = Text(<<"1", "s", "t", " ", "A", "t", "t", "e", "m", "p", "t", "=", "A", "B", "C">>) /\ IsNa(ay2)) =>
              attempt.value = Mastery(Some(1), Label("Pass on 1st attempt", 0), 1)
        /\ (ay1 = Text(<<"O", "n", "l", "y", " ", "1", " ", "A", "t", "t", "e", "m", "p", "t", "=", "D", "F", "W">>) /\ ay2 = Text(<<"2", " ", "A", "t", "t", "e", "m", "p", "t", "s", " ", "(", "1", "s", "t", "=", "D", "F", "W", ",", " ", "2", "n", "d", "=", "A", "B", "C", ")">>)) =>
              attempt.value = Mastery(Some(2), Label("Pass on 2nd attempt", 0), 2)

\* C14 witness: AY1 'Only 1 Attempt=DFW' and AY2 '2 Attempts (1st=DFW, 2nd=ABC)'
\* have been computed.
C14_Witness ==
    /\ attempt # NotRun
    /\ ay1 = Text(<<"O", "n", "l", "y", " ", "1", " ", "A", "t", "t", "e", "m", "p", "t", "=", "D", "F", "W">>)
    /\ ay2 = Text(<<"2", " ", "A", "t", "t", "e", "m", "p", "t", "s", " ", "(", "1", "s", "t", "=", "D", "F", "W", ",", " ", "2", "n", "d", "=", "A", "B", "C", ")">>)
    /\ attempt.value.total_attempts = 2

\* C15: attempts_to_pass is null exactly when the label is 'Never enrolled' or
\* 'No pass after N attempt(s)', and when it is not null, total_attempts is at
\* least attempts_to_pass.
C15_NullIffNoPassLabel ==
    attempt # NotRun =>
        /\ attempt.value.label.text \in PassLabels \cup NoPassLabels
        /\ (attempt.value.attempts_to_abc = None) <=> (attempt.value.label.text \in NoPassLabels)
        /\ attempt.value.attempts_to_abc # None =>
              attempt.value.total_attempts >= attempt.value.attempts_to_abc[1]

\* C15 witness: a result without a pass after two attempts.
C15_Witness ==
    /\ attempt # NotRun
    /\ attempt.value.attempts_to_abc = None
    /\ attempt.value.label = Label("No pass after N attempts", 2)

\* C16: the result is that of the next-attempt rule (attempts of the latest
\* snapshot + 1, twice) whenever neither snapshot shows a pass and the final
\* text is classified as a pass; and whenever AY1 or AY2 shows a pass the result
\* is what it is for a missing final text, whatever the final text.
C16_NextAttemptRule ==
    attempt # NotRun =>
        /\ (~Snapshot1.pass /\ ~Snapshot2.pass /\ OutcomeIsPass(finalOutcome)) =>
              /\ attempt.value.attempts_to_abc = Some(ChosenSnapshot.attempts + 1)
              /\ attempt.value.total_attempts = ChosenSnapshot.attempts + 1
        /\ (Snapshot1.pass \/ Snapshot2.pass) =>
              attempt.value = ComputeAttemptsAyModel(ay1, ay2, NA)

\* the letters A, B, C standing as a grade: a run of letters that are all A, B
\* or C, not inside a longer word
HasGradeToken(xs) ==
    \E i \in 1..Len(xs), j \in 1..Len(xs) :
        /\ i <= j
        /\ \A k \in i..j : xs[k] \in {"A", "B", "C"}
        /\ (i = 1 \/ xs[i - 1] \notin UpperChars)
        /\ (j = Len(xs) \/ xs[j + 1] \notin UpperChars)

\* C17: the final-outcome text is classified as a pass exactly when it holds
\* PASS or an A, B or C grade token and does not hold 'C-'; a missing value and
\* a text with those letters only inside other words are not a pass.
C17_PassTokenOnly ==
    finalPass # NotRun =>
        (finalPass.value <=>
            /\ finalOutcome.kind = "text"
            /\ ~Contains(Upper(finalOutcome.s), <<"C", "-">>)
            /\ \/ Contains(Upper(finalOutcome.s), <<"P", "A", "S", "S">>)
               \/ HasGradeToken(Upper(finalOutcome.s)))

\* C18: a result with a pass on attempt 1, 2 or 3 carries the literal label, and
\* 'Requires more than three attempts' is the label exactly when the pass is on
\* attempt 4 or later.
C18_PassLabelWording ==
    (attempt # NotRun /\ attempt.value.attempts_to_abc # None) =>
        LET k == attempt.value.attempts_to_abc[1]
        IN  /\ k = 1 => attempt.value.label.text = "Pass on 1st attempt"
            /\ k = 2 => attempt.value.label.text = "Pass on 2nd attempt"
            /\ k = 3 => attempt.value.label.text = "Pass on 3rd attempt"
            /\ (attempt.value.label.text = "Requires more than three attempts") <=> (k >= 4)

(***************************************************************************)
(* Course rollups: build_attempt_features on one student's row             *)
(***************************************************************************)
COURSE_KEYS == << "chem_110", "edsgn_100", "math_140", "math_141", "phys_211" >>

FAIL_GRADES == { <<"D">>, <<"F">> }
WITHDRAW    == { <<"W">>, <<"W", "F">>, <<"W", "N">>, <<"L", "D">> }

\* fg.astype("string").str.upper().isin(FAIL_GRADES.union(WITHDRAW)) on one cell
FirstGradeDfw(c) == c.kind = "text" /\ Upper(c.s) \in FAIL_GRADES \cup WITHDRAW

\* one course's cells in the student's row; a column the sheet lacks is NaN
CourseCells(first_grade, o_ay1, o_ay2, o_fin) ==
    [first_grade |-> first_grade, outcome_1st_ay |-> o_ay1,
     outcome_2nd_ay |-> o_ay2, final_outcome |-> o_fin]

\* the columns written for one course from its mastery result, lines 244-263
CourseColumns(m, first_grade) ==
    [attempts_to_abc       |-> m.attempts_to_abc,
     pass_by_first_attempt |-> IF m.attempts_to_abc = Some(1) THEN 1 ELSE 0,
     ever_passed           |-> IF m.attempts_to_abc # None THEN 1 ELSE 0,
     first_grade_dfw       |-> IF FirstGradeDfw(first_grade) THEN 1 ELSE 0,
     total_attempts        |-> m.total_attempts,
     outcome_label         |-> m.label]

\* the per-course columns, lines 238-263
CourseFeatures(c) ==
    CourseColumns(ComputeAttemptsAyModel(c.outcome_1st_ay, c.outcome_2nd_ay, c.final_outcome),
                  c.first_grade)

\* the value sum(skipna=True) adds for a cell
SkipNa(x) == IF x = None THEN 0 ELSE x[1]

\* Rollups whose never-passed count counts the courses that were passed.
RollupsCountingPassed(per) ==
    [per |-> per,
     etm_total_attempts_to_abc    |-> SumOf([k \in DOMAIN per |-> SkipNa(per[k].attempts_to_abc)]),
     etm_first_attempt_pass_count |-> SumOf([k \in DOMAIN per |-> per[k].pass_by_first_attempt]),
     etm_never_passed_count       |-> Cardinality({k \in DOMAIN per : per[k].ever_passed = 1}),
     etm_first_grade_dfw_count    |-> SumOf([k \in DOMAIN per |-> per[k].first_grade_dfw])]

\* the four rollups over the per-course columns, lines 273-285
Rollups(per) ==
    [per |-> per,
     etm_total_attempts_to_abc    |-> SumOf([k \in DOMAIN per |-> SkipNa(per[k].attempts_to_abc)]),
     etm_first_attempt_pass_count |-> SumOf([k \in DOMAIN per |-> per[k].pass_by_first_attempt]),
     etm_never_passed_count       |-> Cardinality({k \in DOMAIN per : per[k].ever_passed = 0}),
     etm_first_grade_dfw_count    |-> SumOf([k \in DOMAIN per |-> per[k].first_grade_dfw])]

\* build_attempt_features on one row: the per-course columns and the rollups
BuildAttemptFeatures(cs) == Rollups([k \in 1..Len(cs) |-> CourseFeatures(cs[k])])

\* what one course's cells can be: nothing at all, a pass at once, a pass at the
\* second attempt, no pass after two attempts, a late pass after two attempts
CourseCases ==
    { CourseCells(NA, NA, NA, NA),
      CourseCells(Text(<<"A">>), Text(<<"1", "s", "t", " ", "A", "t", "t", "e", "m", "p", "t", "=", "A", "B", "C">>), NA, Text(<<"P", "a", "s", "s">>)),
      CourseCells(Text(<<"D">>), Text(<<"O", "n", "l", "y", " ", "1", " ", "A", "t", "t", "e", "m", "p", "t", "=", "D", "F", "W">>), Text(<<"2", " ", "A", "t", "t", "e", "m", "p", "t", "s", " ", "(", "1", "s", "t", "=", "D", "F", "W", ",", " ", "2", "n", "d", "=", "A", "B", "C", ")">>), NA),
      CourseCells(Text(<<"w">>), Text(<<"O", "n", "l", "y", " ", "1", " ", "A", "t", "t", "e", "m", "p", "t", "=", "D", "F", "W">>), Text(<<"2", " ", "A", "t", "t", "e", "m", "p", "t", "s", " ", "(", "B", "o", "t", "h", "=", "D", "F", "W", ")">>), Text(<<"D", "F", "W">>)),
      CourseCells(Text(<<"F">>), Text(<<"O", "n", "l", "y", " ", "1", " ", "A", "t", "t", "e", "m", "p", "t", "=", "D", "F", "W">>), Text(<<"2", " ", "A", "t", "t", "e", "m", "p", "t", "s", " ", "(", "B", "o", "t", "h", "=", "D", "F", "W", ")">>), Text(<<"P", "a", "s", "s">>)) }

RollupInit ==
    /\ courses \in [1..Len(COURSE_KEYS) -> CourseCases]
    /\ feat = NotRun
    /\ IdIdle /\ TermIdle /\ ParseIdle /\ GpaIdle /\ BuildIdle /\ AttemptIdle /\ AnalysisIdle

\* build_attempt_features(df), on the student's row
Rollup ==
    /\ feat = NotRun
    /\ feat' = [status |-> "ok", value |-> BuildAttemptFeatures(courses)]
    /\ UNCHANGED <<courses, idVars, termVars, parseVars, gpaVars, buildVars,
                   attemptVars, analysisVars>>

RollupNext == Rollup

SpecRollup == RollupInit /\ [][RollupNext]_vars

\* the courses of the row whose attempts_to_abc satisfies P
CoursesWhere(P(_)) == {k \in 1..Len(COURSE_KEYS) : P(feat.value.per[k].attempts_to_abc)}

IsNull(x) == x = None
IsOne(x) == x = Some(1)

\* C19: the rollups agree with the five per-course results: the total is the sum
\* of the non-null attempts_to_pass, the first-attempt count is the number of
\* courses with attempts_to_pass = 1, the never-passed count is the number of
\* courses with a null attempts_to_pass, and the two counts sum to at most 5.
C19_RollupsAgree ==
    feat # NotRun =>
        LET per == feat.value.per
            nonNull == {k \in 1..Len(COURSE_KEYS) : per[k].attempts_to_abc # None}
            RECURSIVE Total(_)
            Total(ks) == IF ks = {} THEN 0
                         ELSE LET k == CHOOSE x \in ks : TRUE
                              IN  per[k].attempts_to_abc[1] + Total(ks \ {k})
        IN  /\ Len(per) = 5
            /\ feat.value.etm_total_attempts_to_abc = Total(nonNull)
            /\ feat.value.etm_first_attempt_pass_count = Cardinality(CoursesWhere(IsOne))
            /\ feat.value.etm_never_passed_count = Cardinality(CoursesWhere(IsNull))
            /\ feat.value.etm_first_attempt_pass_count + feat.value.etm_never_passed_count <= 5

\* C19 witness: a row with a first-attempt pass, a later pass and a course never
\* passed has been rolled up.
C19_Witness ==
    /\ feat # NotRun
    /\ feat.value.etm_first_attempt_pass_count >= 1
    /\ feat.value.etm_never_passed_count >= 1
    /\ feat.value.etm_total_attempts_to_abc >= 4

(***************************************************************************)
(* Leakage sanitizer: src/src/analysis/sanitizer.py, main                  *)
(* A column is kept as its name, its dtype and its cells counted by class, *)
(* separately for the rows whose raw outcome is 1, 0 and NaN: no step of   *)
(* the sanitizer looks at the order of the rows.                           *)
(* Cell classes: na (NaN), nastr (a text NA_STRINGS matches, such as       *)
(* "N/A (101)"), zero, one, other (another number), text (another text),   *)
(* range (a text like "29-55" whose midpoint lies in a credit bin).        *)
(***************************************************************************)
OUTCOME_COL == <<"g", "r", "a", "d", "u", "a", "t", "e", "d", "_", "m", "e">>

\* MAX_MISSING_PCT = 0.60 and CORR_EQUIV_THR = 0.985, as fractions
MAX_MISSING_PCT == [num |-> 60, den |-> 100]
CORR_EQUIV_THR  == [num |-> 985, den |-> 1000]
\* the 100 of near_equal_to_outcome
MinNonMissing == 100

XClasses == {"na", "nastr", "zero", "one", "other", "text", "range"}
YClasses == {"y1", "y0", "yna"}
NumericX == {"zero", "one", "other"}

EndsWith(s, w) == Len(s) >= Len(w) /\ SubSeq(s, Len(s) - Len(w) + 1, Len(s)) = w

\* DENY_PATTERNS, searched in the lower-cased name
IsNameLeaky(col) ==
    LET lower == Lower(col)
    IN  \/ Contains(lower, <<"g", "r", "a", "d", "u", "a", "t", "i", "n", "g">>)
        \/ Contains(lower, <<"d", "e", "g", "r", "e", "e">>)
        \/ Contains(lower, <<"m", "e", "_", "b", "s">>)
        \/ Contains(lower, <<"o", "u", "t", "c", "o", "m", "e">>)
        \/ EndsWith(lower, <<"_", "i", "s", "_", "m", "i", "s", "s", "i", "n", "g">>)

\* WARN_PATTERNS, searched in the lower-cased name
IsNameWarn(col) ==
    LET lower == Lower(col)
    IN  \/ EndsWith(lower, <<"c", "g", "p", "a">>)
        \/ EndsWith(lower, <<"g", "p", "a">>)
        \/ \E i \in 1..Len(lower) :
              /\ LitAt(lower, i, <<"g", "p", "a", "_">>)
              /\ \E j \in (i + 4)..Len(lower) : LitAt(lower, j, <<"f", "i", "n", "a", "l">>) \/ LitAt(lower, j, <<"l", "a", "s", "t">>)
        \/ Contains(lower, <<"s", "t", "a", "t", "u", "s">>)
        \/ Contains(lower, <<"e", "t", "m", "_", "w", "i", "n", "d", "o", "w">>)

\* the sum of the function f over the finite set `set` of its domain
RECURSIVE SumOver(_, _)
SumOver(set, f) ==
    IF set = {} THEN 0
    ELSE LET x == CHOOSE e \in set : TRUE IN f[x] + SumOver(set \ {x}, f)

\* the cells of column c with a class in xs, on the rows with a class in ys
CountCells(c, xs, ys) ==
    SumOver(ys, [y \in ys |-> SumOver(xs, c.cells[y])])

RowCount(c) == CountCells(c, XClasses, YClasses)

\* normalize_missing_categories on one column: in an object column the texts
\* NA_STRINGS matches become NaN
NormalizeMissing(c) ==
    IF c.dtype # "text" THEN c
    ELSE [c EXCEPT !.cells = [y \in YClasses |->
             [x \in XClasses |-> CASE x = "na"    -> c.cells[y]["na"] + c.cells[y]["nastr"]
                                   [] x = "nastr" -> 0
                                   [] OTHER       -> c.cells[y][x]]]]

ColumnNames(tbl) == [k \in 1..Len(tbl) |-> tbl[k].name]
HasColumn(tbl, col) == \E k \in 1..Len(tbl) : tbl[k].name = col
ColumnAt(tbl, col) == tbl[CHOOSE k \in 1..Len(tbl) : tbl[k].name = col]

CREDIT_CANDIDATES == << <<"a", "t", "t", "e", "m", "p", "t", "e", "d", "_", "c", "r", "e", "d", "i", "t", "s">>, <<"e", "a", "r", "n", "e", "d", "_", "c", "r", "e", "d", "i", "t", "s">>,
                        <<"c", "r", "e", "d", "i", "t", "s", "_", "a", "t", "_", "c", "h", "e", "c", "k", "p", "o", "i", "n", "t">>, <<"c", "r", "e", "d", "i", "t", "s", "_", "b", "y", "_", "e", "t", "m">> >>
CREDIT_WINDOW == <<"c", "r", "e", "d", "i", "t", "_", "w", "i", "n", "d", "o", "w">>
CREDIT_WINDOW_CANON == <<"c", "r", "e", "d", "i", "t", "_", "w", "i", "n", "d", "o", "w", "_", "c", "a", "n", "o", "n">>

\* the categorical column pd.cut writes: a label where the cell has a class in
\* `binned`, NaN elsewhere
CanonColumn(c, binned) ==
    [name |-> CREDIT_WINDOW_CANON, dtype |-> "category",
     cells |-> [y \in YClasses |->
        [x \in XClasses |-> CASE x = "text" -> SumOver(binned, c.cells[y])
                              [] x = "na"   -> SumOver(XClasses \ binned, c.cells[y])
                              [] OTHER      -> 0]]]

\* df2[name] = column: in place when the frame has the name, else at the end
SetColumn(tbl, c) ==
    IF HasColumn(tbl, c.name)
    THEN [k \in 1..Len(tbl) |-> IF tbl[k].name = c.name THEN c ELSE tbl[k]]
    ELSE Append(tbl, c)

\* normalize_credit_window: from the first numeric candidate column, else from
\* the ranges of credit_window
NormalizeCreditWindow(tbl) ==
    LET numeric == SelectSeq(CREDIT_CANDIDATES,
                             LAMBDA col : HasColumn(tbl, col) /\ ColumnAt(tbl, col).dtype = "number")
    IN  IF numeric # <<>> THEN SetColumn(tbl, CanonColumn(ColumnAt(tbl, numeric[1]), NumericX))
        ELSE IF HasColumn(tbl, CREDIT_WINDOW)
        THEN SetColumn(tbl, CanonColumn(ColumnAt(tbl, CREDIT_WINDOW), {"range"}))
        ELSE tbl

\* A missingness test that holds at the threshold too.
MissingAtLeast(c) ==
    CountCells(c, {"na"}, YClasses) * MAX_MISSING_PCT.den >= MAX_MISSING_PCT.num * RowCount(c)

\* df[c].isna().mean() > MAX_MISSING_PCT
MissingExceeded(c) ==
    CountCells(c, {"na"}, YClasses) * MAX_MISSING_PCT.den > MAX_MISSING_PCT.num * RowCount(c)

\* near_equal_to_outcome(df[c], y). y is the outcome after ensure_binary, which
\* on a numeric outcome is (s > 0): 1.0 on the rows y1, 0.0 on y0 and on yna.
NearEqualToOutcome(c) ==
    LET numeric == IF c.dtype = "category" THEN {} ELSE NumericX
        common  == CountCells(c, numeric, YClasses)
        same    == CountCells(c, {"one"} \cap numeric, {"y1"})
                   + CountCells(c, {"zero"} \cap numeric, {"y0", "yna"})
        inv     == CountCells(c, {"zero"} \cap numeric, {"y1"})
                   + CountCells(c, {"one"} \cap numeric, {"y0", "yna"})
    IN  IF common < MinNonMissing \/ RowCount(c) < MinNonMissing THEN FALSE
        ELSE IF common = 0 THEN FALSE
        ELSE Max({same, inv}) * CORR_EQUIV_THR.den >= CORR_EQUIV_THR.num * common

NoLists == [deny_cols |-> <<>>, warn_cols |-> <<>>, na_heavy_cols |-> <<>>, eq_outcome_cols |-> <<>>]

\* A loop that looks at missingness before the name.
RECURSIVE GuardListsMissingFirst(_, _, _)
GuardListsMissingFirst(tbl, k, acc) ==
    IF k > Len(tbl) THEN acc
    ELSE LET c == tbl[k]
         IN  IF c.name = OUTCOME_COL THEN GuardListsMissingFirst(tbl, k + 1, acc)
             ELSE IF MissingExceeded(c)
             THEN GuardListsMissingFirst(tbl, k + 1,
                      [acc EXCEPT !.na_heavy_cols = Append(@, c.name)])
             ELSE IF IsNameLeaky(c.name)
             THEN GuardListsMissingFirst(tbl, k + 1, [acc EXCEPT !.deny_cols = Append(@, c.name)])
             ELSE GuardListsMissingFirst(tbl, k + 1,
                      [acc EXCEPT !.eq_outcome_cols =
                                      IF NearEqualToOutcome(c) THEN Append(@, c.name) ELSE @])

\* the loop of lines 120-136 from column k on
RECURSIVE GuardLists(_, _, _)
GuardLists(tbl, k, acc) ==
    IF k > Len(tbl) THEN acc
    ELSE LET c == tbl[k]
         IN  IF c.name = OUTCOME_COL THEN GuardLists(tbl, k + 1, acc)
             ELSE IF IsNameLeaky(c.name)
             THEN GuardLists(tbl, k + 1, [acc EXCEPT !.deny_cols = Append(@, c.name)])
             ELSE LET warned == IF IsNameWarn(c.name)
                                THEN [acc EXCEPT !.warn_cols = Append(@, c.name)] ELSE acc
                  IN  IF MissingExceeded(c)
                      THEN GuardLists(tbl, k + 1,
                               [warned EXCEPT !.na_heavy_cols = Append(@, c.name)])
                      ELSE IF NearEqualToOutcome(c)
                      THEN GuardLists(tbl, k + 1,
                               [warned EXCEPT !.eq_outcome_cols = Append(@, c.name)])
                      ELSE GuardLists(tbl, k + 1, warned)

Range(seq) == {seq[k] : k \in 1..Len(seq)}

\* sorted(set): the names in str order
RECURSIVE SortedNames(_)
SortedNames(set) ==
    IF set = {} THEN <<>>
    ELSE LET least == CHOOSE x \in set : \A y \in set \ {x} : StrLess(x, y)
         IN  <<least>> \o SortedNames(set \ {least})

\* main(): what the run writes, for a table that has the outcome column
Sanitize(tbl) ==
    LET df    == NormalizeCreditWindow([k \in 1..Len(tbl) |-> NormalizeMissing(tbl[k])])
        lists == GuardLists(df, 1, NoLists)
        drop  == SortedNames(Range(lists.deny_cols) \cup Range(lists.na_heavy_cols)
                             \cup Range(lists.eq_outcome_cols))
    IN  [status                |-> "ok",
         columns               |-> ColumnNames(df),
         quarantine_table      |-> <<OUTCOME_COL>> \o drop,
         sanitized_table       |-> SelectSeq(ColumnNames(df), LAMBDA col : col \notin Range(drop)),
         dropped_from_main     |-> drop,
         warn_columns          |-> lists.warn_cols,
         na_heavy_cols         |-> lists.na_heavy_cols,
         name_denied_cols      |-> lists.deny_cols,
         equal_to_outcome_cols |-> lists.eq_outcome_cols]

(***************************************************************************)
(* Clean tables of 1000 rows: 480 with outcome 1, 500 with outcome 0 and   *)
(* 20 with a missing outcome.                                              *)
(***************************************************************************)
\* the cells of one outcome class, counted by cell class
Bag(na, nastr, zero, one, other, text, range) ==
    [x \in XClasses |-> CASE x = "na" -> na [] x = "nastr" -> nastr [] x = "zero" -> zero
                          [] x = "one" -> one [] x = "other" -> other [] x = "text" -> text
                          [] x = "range" -> range]

Column(name, dtype, y1, y0, yna) ==
    [name |-> name, dtype |-> dtype,
     cells |-> [y \in YClasses |-> CASE y = "y1" -> y1 [] y = "y0" -> y0 [] y = "yna" -> yna]]

\* the outcome column of a table with y1 ones, y0 zeros and yna empty cells
OutcomeOf(y1, y0, yna) ==
    Column(OUTCOME_COL, "number",
           Bag(0, 0, 0, y1, 0, 0, 0), Bag(0, 0, y0, 0, 0, 0, 0), Bag(yna, 0, 0, 0, 0, 0, 0))

OutcomeColumn == OutcomeOf(480, 500, 20)

\* the other columns a clean table is made of
FeatureColumns ==
    { \* a CGPA, complete: denied by name
      Column(<<"g", "r", "a", "d", "u", "a", "t", "i", "n", "g", "_", "c", "g", "p", "a">>, "number",
             Bag(0, 0, 0, 0, 480, 0, 0), Bag(0, 0, 0, 0, 500, 0, 0), Bag(0, 0, 0, 0, 20, 0, 0)),
      \* a label, 70% missing: denied by name before missingness is looked at
      Column(<<"O", "u", "t", "c", "o", "m", "e", "_", "L", "a", "b", "e", "l">>, "text",
             Bag(300, 0, 0, 0, 0, 180, 0), Bag(380, 0, 0, 0, 0, 120, 0), Bag(20, 0, 0, 0, 0, 0, 0)),
      \* a flag equal to the outcome, named as a missingness indicator
      Column(<<"c", "g", "p", "a", "_", "i", "s", "_", "m", "i", "s", "s", "i", "n", "g">>, "number",
             Bag(0, 0, 0, 480, 0, 0, 0), Bag(0, 0, 500, 0, 0, 0, 0), Bag(0, 0, 20, 0, 0, 0, 0)),
      \* a count whose name holds _is_missing, not at its end
      Column(<<"n", "_", "i", "s", "_", "m", "i", "s", "s", "i", "n", "g", "_", "t", "e", "r", "m", "s">>, "number",
             Bag(0, 0, 100, 100, 280, 0, 0), Bag(0, 0, 100, 100, 300, 0, 0), Bag(0, 0, 0, 0, 20, 0, 0)),
      \* a GPA, 61% missing
      Column(<<"m", "e", "a", "n", "_", "t", "e", "r", "m", "_", "g", "p", "a">>, "number",
             Bag(300, 0, 0, 0, 180, 0, 0), Bag(300, 0, 0, 0, 200, 0, 0), Bag(10, 0, 0, 0, 10, 0, 0)),
      \* a GPA, 10% missing
      Column(<<"f", "i", "r", "s", "t", "_", "t", "e", "r", "m", "_", "g", "p", "a">>, "number",
             Bag(50, 0, 0, 0, 430, 0, 0), Bag(50, 0, 0, 0, 450, 0, 0), Bag(0, 0, 0, 0, 20, 0, 0)),
      \* a flag equal to the outcome on 990 rows
      Column(<<"e", "t", "m", "_", "f", "l", "a", "g">>, "number",
             Bag(0, 0, 5, 475, 0, 0, 0), Bag(0, 0, 495, 5, 0, 0, 0), Bag(0, 0, 20, 0, 0, 0, 0)),
      \* a flag equal to 1 - outcome on every row
      Column(<<"n", "e", "v", "e", "r", "_", "f", "l", "a", "g">>, "number",
             Bag(0, 0, 480, 0, 0, 0, 0), Bag(0, 0, 0, 500, 0, 0, 0), Bag(0, 0, 0, 20, 0, 0, 0)),
      \* a copy of the outcome, 65% missing
      Column(<<"s", "p", "a", "r", "s", "e", "_", "c", "o", "p", "y">>, "number",
             Bag(300, 0, 0, 180, 0, 0, 0), Bag(330, 0, 170, 0, 0, 0, 0), Bag(20, 0, 0, 0, 0, 0, 0)),
      \* a text column with 64% "N/A (101)"
      Column(<<"c", "a", "m", "p", "u", "s">>, "text",
             Bag(0, 300, 0, 0, 0, 180, 0), Bag(0, 320, 0, 0, 0, 180, 0), Bag(0, 20, 0, 0, 0, 0, 0)),
      \* a numeric credits column, 65% missing
      Column(<<"e", "a", "r", "n", "e", "d", "_", "c", "r", "e", "d", "i", "t", "s">>, "number",
             Bag(300, 0, 0, 0, 180, 0, 0), Bag(330, 0, 0, 0, 170, 0, 0), Bag(20, 0, 0, 0, 0, 0, 0)),
      \* credit ranges, some unreadable
      Column(CREDIT_WINDOW, "text",
             Bag(0, 0, 0, 0, 0, 0, 480), Bag(0, 0, 0, 0, 0, 50, 450), Bag(20, 0, 0, 0, 0, 0, 0)) }

\* the most feature columns a table has
MaxTableCols == 3

\* seq with x put in after its first p elements
InsertAt(seq, p, x) == SubSeq(seq, 1, p) \o <<x>> \o SubSeq(seq, p + 1, Len(seq))

\* a table: feature columns of distinct names in any order, the outcome column
\* among them
SanitizerInit ==
    /\ \E n \in 0..MaxTableCols : \E cols \in [1..n -> FeatureColumns] : \E p \in 0..n :
          /\ \A i, j \in 1..n : cols[i].name = cols[j].name => i = j
          /\ table = InsertAt(cols, p, OutcomeColumn)
    /\ sanitized = NotRun /\ previous = NotRun
    /\ IdIdle /\ TermIdle /\ ParseIdle /\ GpaIdle /\ BuildIdle /\ AttemptIdle /\ RollupIdle
    /\ BinaryIdle /\ CreditIdle /\ RunAllIdle /\ PrepareIdle

\* A run that reads what the run before it wrote.
ReadLastOutput(clean, out) ==
    IF out = NotRun THEN clean
    ELSE SelectSeq(clean, LAMBDA c : c.name \in Range(out.sanitized_table))

\* pd.read_csv(args.clean): the run reads the clean table, whatever an earlier
\* run wrote to args.out
ReadClean(clean, out) == clean

\* one run of the sanitizer; it is run at most twice
RunSanitizer ==
    /\ previous = NotRun
    /\ sanitized' = Sanitize(ReadClean(table, sanitized))
    /\ previous' = sanitized
    /\ UNCHANGED <<table, idVars, termVars, parseVars, gpaVars, buildVars,
                   attemptVars, rollupVars, binaryVars, creditVars, runAllVars, prepareVars>>

SanitizerNext == RunSanitizer

SpecSanitizer == SanitizerInit /\ [][SanitizerNext]_vars

\* the verdict the lists of a run give a column
Verdict(run, col) ==
    CASE col \in Range(run.name_denied_cols)      -> "name_denied"
      [] col \in Range(run.na_heavy_cols)         -> "missingness_exceeded"
      [] col \in Range(run.equal_to_outcome_cols) -> "near_equivalent_to_outcome"
      [] OTHER                                    -> "ok"

\* the verdict of the ordered rules on a column taken by itself
RuleVerdict(c) ==
    IF IsNameLeaky(c.name) THEN "name_denied"
    ELSE IF MissingExceeded(c) THEN "missingness_exceeded"
    ELSE IF NearEqualToOutcome(c) THEN "near_equivalent_to_outcome"
    ELSE "ok"

\* the frame the loop goes over
Frame == NormalizeCreditWindow([k \in 1..Len(table) |-> NormalizeMissing(table[k])])

Reverse(seq) == [k \in 1..Len(seq) |-> seq[Len(seq) + 1 - k]]

\* how many of the sequences of `lists` hold x
Holders(lists, x) == Cardinality({k \in 1..Len(lists) : x \in Range(lists[k])})

\* C20: every non-outcome column of the frame is in exactly one of the kept
\* table and the three reason lists, its verdict is that of the first matching
\* rule (name, then missingness, then near-equivalence, else ok), the kept and
\* the quarantined columns are disjoint and together all non-outcome columns, and
\* the verdict of a column is the one it gets in a table of its own and in the
\* table with the columns in reverse order.
C20_OneVerdictPerColumn ==
    sanitized # NotRun =>
        LET kept        == Range(sanitized.sanitized_table) \ {OUTCOME_COL}
            quarantined == Range(sanitized.quarantine_table) \ {OUTCOME_COL}
            frame       == Frame
            reversed    == Sanitize(Reverse(table))
        IN  /\ \A k \in 1..Len(frame) :
                  frame[k].name # OUTCOME_COL =>
                      /\ Holders(<<sanitized.sanitized_table, sanitized.name_denied_cols,
                                   sanitized.na_heavy_cols, sanitized.equal_to_outcome_cols>>,
                                 frame[k].name) = 1
                      /\ Verdict(sanitized, frame[k].name) = RuleVerdict(frame[k])
                      /\ (frame[k].name \in kept) <=> (RuleVerdict(frame[k]) = "ok")
            /\ kept \cap quarantined = {}
            /\ kept \cup quarantined = Range(ColumnNames(frame)) \ {OUTCOME_COL}
            /\ \A k \in 1..Len(table) :
                  table[k].name # OUTCOME_COL =>
                      /\ Verdict(sanitized, table[k].name)
                           = Verdict(Sanitize(<<OutcomeColumn, table[k]>>), table[k].name)
                      /\ Verdict(sanitized, table[k].name) = Verdict(reversed, table[k].name)

\* C20 witness: a run over a name-denied column that is also mostly missing, a
\* column quarantined for missingness and a kept column.
C20_Witness ==
    /\ sanitized # NotRun
    /\ sanitized.name_denied_cols = << <<"O", "u", "t", "c", "o", "m", "e", "_", "L", "a", "b", "e", "l">> >>
    /\ sanitized.na_heavy_cols = << <<"c", "a", "m", "p", "u", "s">> >>
    /\ <<"f", "i", "r", "s", "t", "_", "t", "e", "r", "m", "_", "g", "p", "a">> \in Range(sanitized.sanitized_table)

\* C23: every column of the report's warn_columns is in the sanitized table and
\* is not in the quarantine table.
C23_WarnedColumnsKept ==
    sanitized # NotRun =>
        \A col \in Range(sanitized.warn_columns) :
            /\ col \in Range(sanitized.sanitized_table)
            /\ col \notin Range(sanitized.quarantine_table)

\* C24: after a run, dropped_from_main is the set of input columns that the
\* sanitized table lacks, each dropped column is in exactly one reason list, the
\* quarantine table is the outcome column and the dropped columns, and the
\* outcome column is in the sanitized table.
C24_ReportMatchesTables ==
    sanitized # NotRun =>
        LET dropped == Range(sanitized.dropped_from_main)
        IN  /\ dropped = Range(ColumnNames(table)) \ Range(sanitized.sanitized_table)
            /\ \A col \in dropped :
                  Holders(<<sanitized.name_denied_cols, sanitized.na_heavy_cols,
                            sanitized.equal_to_outcome_cols>>, col) = 1
            /\ Range(sanitized.quarantine_table) = {OUTCOME_COL} \cup dropped
            /\ OUTCOME_COL \in Range(sanitized.sanitized_table)

PROBE == <<"p", "r", "o", "b", "e", "_", "f", "l", "a", "g">>

\* the outcome counts <<ones, zeros, empty>> of the tables
OutcomeShapes == { <<500, 500, 0>>, <<480, 500, 20>>, <<60, 60, 0>> }

\* the numbers of missing cells tried on a column of n rows: none, around 60% of
\* the rows, and all but 100 and all but 99
MissingCounts(n) ==
    {0, (6 * n) \div 10 - 1, (6 * n) \div 10, (6 * n) \div 10 + 1, n - 100, n - 99}

\* the most rows on which the flag differs from the outcome
MaxDisagree == 20

\* A flag column on a table of the given outcome counts: `missing` empty cells
\* (put on the rows of an empty outcome first, then of outcome 0, then of outcome
\* 1), `fill` on the other rows of an empty outcome, and elsewhere the outcome
\* (1 - outcome when `inverse`) but for `disagree` rows of outcome 1.
Probe(shape, missing, disagree, fill, inverse) ==
    LET mna   == Min({missing, shape[3]})
        m0    == Min({missing - mna, shape[2]})
        m1    == missing - mna - m0
        same1 == shape[1] - m1 - disagree
        same0 == shape[2] - m0
        fna   == shape[3] - mna
    IN  Column(PROBE, "number",
               IF inverse THEN Bag(m1, 0, same1, disagree, 0, 0, 0)
                          ELSE Bag(m1, 0, disagree, same1, 0, 0, 0),
               IF inverse THEN Bag(m0, 0, 0, same0, 0, 0, 0)
                          ELSE Bag(m0, 0, same0, 0, 0, 0, 0),
               IF fill = "one" THEN Bag(mna, 0, 0, fna, 0, 0, 0)
                               ELSE Bag(mna, 0, fna, 0, 0, 0, 0))

ThresholdInit ==
    /\ \E shape \in OutcomeShapes :
       \E missing \in MissingCounts(shape[1] + shape[2] + shape[3]) :
       \E disagree \in 0..MaxDisagree : \E fill \in {"zero", "one"} : \E inverse \in BOOLEAN :
          table = << OutcomeOf(shape[1], shape[2], shape[3]),
                     Probe(shape, missing, disagree, fill, inverse) >>
    /\ sanitized = NotRun /\ previous = NotRun
    /\ IdIdle /\ TermIdle /\ ParseIdle /\ GpaIdle /\ BuildIdle /\ AttemptIdle /\ RollupIdle
    /\ BinaryIdle /\ CreditIdle /\ RunAllIdle /\ PrepareIdle

SpecThreshold == ThresholdInit /\ [][SanitizerNext]_vars

\* C21: a column that is not name-denied and has exactly 60% of its cells
\* missing is not quarantined for missingness, and one with more than 60% missing
\* is quarantined with the verdict missingness_exceeded.
C21_MissingnessBoundary ==
    (sanitized # NotRun /\ HasColumn(table, PROBE)) =>
        LET c    == ColumnAt(table, PROBE)
            miss == CountCells(c, {"na"}, YClasses)
        IN  /\ (100 * miss = 60 * RowCount(c)) =>
                  /\ PROBE \notin Range(sanitized.na_heavy_cols)
                  /\ Verdict(sanitized, PROBE) # "missingness_exceeded"
            /\ (100 * miss > 60 * RowCount(c)) =>
                  /\ Verdict(sanitized, PROBE) = "missingness_exceeded"
                  /\ PROBE \in Range(sanitized.quarantine_table)
                  /\ PROBE \notin Range(sanitized.sanitized_table)

\* C21 witness: a run over a flag with exactly 600 of 1000 cells missing, kept.
C21_Witness ==
    /\ sanitized # NotRun
    /\ HasColumn(table, PROBE)
    /\ CountCells(ColumnAt(table, PROBE), {"na"}, YClasses) = 600
    /\ RowCount(ColumnAt(table, PROBE)) = 1000
    /\ PROBE \in Range(sanitized.sanitized_table)

\* C22: a column that is neither name-denied nor quarantined for missingness,
\* with at least 100 non-missing cells and at least 100 non-missing outcomes, is
\* quarantined as near_equivalent_to_outcome exactly when, over the rows where
\* both are non-missing, it equals the outcome or 1 - outcome on at least 98.5%
\* of them; with fewer than 100 non-missing cells it is kept.
C22_NearEquivalenceBoundary ==
    (sanitized # NotRun /\ HasColumn(table, PROBE)
       /\ Verdict(sanitized, PROBE) \notin {"name_denied", "missingness_exceeded"}) =>
        LET c      == ColumnAt(table, PROBE)
            y      == ColumnAt(table, OUTCOME_COL)
            both   == CountCells(c, NumericX, {"y1", "y0"})
            same   == CountCells(c, {"one"}, {"y1"}) + CountCells(c, {"zero"}, {"y0"})
            inv    == CountCells(c, {"zero"}, {"y1"}) + CountCells(c, {"one"}, {"y0"})
            enough == /\ CountCells(c, NumericX, YClasses) >= 100
                      /\ CountCells(y, NumericX, YClasses) >= 100
        IN  /\ enough =>
                  ((Verdict(sanitized, PROBE) = "near_equivalent_to_outcome")
                      <=> (both > 0 /\ (1000 * same >= 985 * both \/ 1000 * inv >= 985 * both)))
            /\ ~enough => PROBE \in Range(sanitized.sanitized_table)

(***************************************************************************)
(* ensure_binary: src/src/analysis/utils.py                                *)
(* A series is its dtype and its cells; read_csv gives a column of numbers *)
(* and empty cells a numeric dtype and a column with a text the object     *)
(* dtype.                                                                  *)
(***************************************************************************)
TRUTHY ==
    { <<"1">>, <<"y">>, <<"y", "e", "s">>, <<"t", "r", "u", "e">>, <<"t">>,
      <<"g", "r", "a", "d", "u", "a", "t", "e">>, <<"g", "r", "a", "d", "u", "a", "t", "e", "d">>,
      <<"d", "e", "g", "r", "e", "e", " ", "a", "w", "a", "r", "d", "e", "d">>,
      <<"a", "w", "a", "r", "d", "e", "d">> }
FALSY ==
    { <<"0">>, <<"n">>, <<"n", "o">>, <<"f", "a", "l", "s", "e">>, <<"f">>, <<"n", "o", "t">>,
      <<"d", "i", "d", " ", "n", "o", "t">>, <<"n", "o", "n", "e">>,
      <<"m", "i", "s", "s", "i", "n", "g">> }

\* ensure_binary on one cell of a series of the given dtype
EnsureBinaryCell(dtype, c) ==
    IF dtype = "number"
    THEN \* (s > 0).astype(float): NaN > 0 is False
         IF c.kind = "num" /\ c.n > 0 THEN Num(1) ELSE Num(0)
    ELSE IF c.kind # "text" THEN NA
    ELSE LET s == Lower(Strip(c.s))
         IN  IF s \in TRUTHY THEN Num(1)
             ELSE IF s \in FALSY THEN Num(0)
             ELSE NA

EnsureBinary(s) == [k \in 1..Len(s.cells) |-> EnsureBinaryCell(s.dtype, s.cells[k])]

\* the longest series tried
MaxSeriesLen == 2

NumberCells == {NA, Num(0 - 1), Num(0), Num(1), Num(2)}
ObjectCells ==
    {NA, Text(<<"Y", "e", "s">>), Text(<<" ", "G", "r", "a", "d", "u", "a", "t", "e", "d", " ">>),
     Text(<<"n", "o">>), Text(<<"N">>), Text(<<"m", "a", "y", "b", "e">>), Text(<<"0">>), Text(<<>>),
     Text(<<"d", "e", "g", "r", "e", "e", " ", "a", "w", "a", "r", "d", "e", "d">>)}

BinaryInit ==
    /\ \E n \in 1..MaxSeriesLen :
          \/ \E cells \in [1..n -> NumberCells] : series = [dtype |-> "number", cells |-> cells]
          \/ \E cells \in [1..n -> ObjectCells] : series = [dtype |-> "object", cells |-> cells]
    /\ binary = NotRun
    /\ IdIdle /\ TermIdle /\ ParseIdle /\ GpaIdle /\ BuildIdle /\ AttemptIdle /\ RollupIdle
    /\ SanitizerIdle /\ CreditIdle /\ RunAllIdle /\ PrepareIdle

\* ensure_binary(series)
EnsureBinarySeries ==
    /\ binary = NotRun
    /\ binary' = [status |-> "ok", value |-> EnsureBinary(series)]
    /\ UNCHANGED <<series, idVars, termVars, parseVars, gpaVars, buildVars,
                   attemptVars, rollupVars, sanitizerVars, creditVars, runAllVars, prepareVars>>

BinaryNext == EnsureBinarySeries

SpecBinary == BinaryInit /\ [][BinaryNext]_vars

\* C28: ensure_binary returns 0.0, 1.0 or a missing value in every cell, and a
\* missing value wherever its input is missing, for numeric and for text input.
C28_MissingStaysMissing ==
    binary # NotRun =>
        \A k \in 1..Len(series.cells) :
            /\ binary.value[k] \in {Num(0), Num(1), NA}
            /\ series.cells[k] = NA => binary.value[k] = NA

(***************************************************************************)
(* Credit bins: the pd.cut of normalize_credit_window on one credit value  *)
(***************************************************************************)
\* CREDIT_BINS; CREDIT_LABELS names the bin (a, b) "a-b", and "a+" for the last
CREDIT_BINS == << <<0, 19>>, <<20, 39>>, <<40, 59>>, <<60, 79>>, <<80, 99>>, <<100, 10000>> >>

\* bins = [a for a,_ in CREDIT_BINS] + [CREDIT_BINS[-1][1]]
CutEdges ==
    [i \in 1..(Len(CREDIT_BINS) + 1) |->
        IF i <= Len(CREDIT_BINS) THEN CREDIT_BINS[i][1] ELSE CREDIT_BINS[Len(CREDIT_BINS)][2]]

\* pd.cut(v, bins, labels=CREDIT_LABELS, include_lowest=True, right=True): the
\* intervals are closed on the right, the first one on the left as well; a value
\* in none of them is NaN
PdCut(v) ==
    LET hit == {i \in 1..Len(CREDIT_BINS) :
                   /\ v <= CutEdges[i + 1]
                   /\ (CutEdges[i] < v \/ (i = 1 /\ CutEdges[i] = v))}
    IN  IF hit = {} THEN NA
        ELSE LET i == CHOOSE j \in hit : TRUE
             IN  [kind |-> "label", lo |-> CREDIT_BINS[i][1], hi |-> CREDIT_BINS[i][2]]

\* the credit values tried: 0..MaxCredit and the values around the last edge
MaxCredit == 120

CreditInit ==
    /\ credit \in (0..MaxCredit) \cup {9999, 10000, 10001}
    /\ canon = NotRun
    /\ IdIdle /\ TermIdle /\ ParseIdle /\ GpaIdle /\ BuildIdle /\ AttemptIdle /\ RollupIdle
    /\ SanitizerIdle /\ BinaryIdle /\ RunAllIdle /\ PrepareIdle

\* normalize_credit_window on a row whose numeric credits column holds `credit`
CutCredit ==
    /\ canon = NotRun
    /\ canon' = [status |-> "ok", value |-> PdCut(credit)]
    /\ UNCHANGED <<credit, idVars, termVars, parseVars, gpaVars, buildVars,
                   attemptVars, rollupVars, sanitizerVars, binaryVars, runAllVars, prepareVars>>

CreditNext == CutCredit

SpecCredit == CreditInit /\ [][CreditNext]_vars

\* C30: a credit value v in 0..10000 gets a label of the canonical bins, and its
\* label a-b (or a+) has a <= v <= b, at the bin edges too.
C30_LabelContainsValue ==
    (canon # NotRun /\ credit \in 0..10000) =>
        /\ canon.value # NA
        /\ <<canon.value.lo, canon.value.hi>> \in Range(CREDIT_BINS)
        /\ canon.value.lo <= credit
        /\ credit <= canon.value.hi

(***************************************************************************)
(* run_all: src/src/analysis/run_all.py                                    *)
(* Each command is a subprocess; whether it exits with 0 is not decided    *)
(* here. A command reads the clean table at its --clean argument, or at    *)
(* its module's default when run_all gives none.                           *)
(***************************************************************************)
\* CMDS, with the --clean argument of each command ("" when it has none)
CMDS ==
    << [module |-> "sanitizer",             clean |-> ""],
       [module |-> "validate",              clean |-> "SANITIZED"],
       [module |-> "effect_sizes",          clean |-> "SANITIZED"],
       [module |-> "risk_ratios",           clean |-> "SANITIZED"],
       [module |-> "bucketing",             clean |-> "SANITIZED"],
       [module |-> "gpa_trajectory_trends", clean |-> ""],
       [module |-> "trend_finder",          clean |-> "SANITIZED"],
       [module |-> "distributions",         clean |-> "SANITIZED"] >>

\* the default of a module's --clean argument
DefaultClean(module) == IF module = "distributions" THEN "SANITIZED" ELSE "DEFAULT_CLEAN"

\* the clean table a command reads; trend_finder takes the sanitized file
\* whenever it exists
CleanPath(cmd, sanitizedExists) ==
    LET arg == IF cmd.clean = "" THEN DefaultClean(cmd.module) ELSE cmd.clean
    IN  IF cmd.module = "trend_finder" /\ sanitizedExists THEN "SANITIZED" ELSE arg

\* the columns of the file at a path
ColumnsAt(path, clean, out) ==
    IF path = "DEFAULT_CLEAN" THEN ColumnNames(clean)
    ELSE IF out = NotRun THEN <<>> ELSE out.sanitized_table

\* pc after the last command, and after a command that failed
Complete == Len(CMDS) + 1
Aborted  == Len(CMDS) + 2

RunAllInit ==
    /\ pc = 1 /\ log = <<>>
    /\ \E c \in FeatureColumns : table = <<OutcomeColumn, c>>
    /\ sanitized = NotRun /\ previous = NotRun
    /\ IdIdle /\ TermIdle /\ ParseIdle /\ GpaIdle /\ BuildIdle /\ AttemptIdle /\ RollupIdle
    /\ BinaryIdle /\ CreditIdle /\ PrepareIdle

\* one turn of the loop of main: subprocess.run(cmd, check=True)
RunCommand ==
    /\ pc \in 1..Len(CMDS)
    /\ \E ok \in BOOLEAN :
          LET cmd  == CMDS[pc]
              path == CleanPath(cmd, sanitized # NotRun)
          IN  /\ log' = Append(log, [module |-> cmd.module, ok |-> ok, clean |-> path,
                                     columns |-> ColumnsAt(path, table, sanitized)])
              /\ pc' = IF ok THEN pc + 1 ELSE Aborted
              /\ IF cmd.module = "sanitizer" /\ ok
                 THEN /\ sanitized' = Sanitize(ReadClean(table, sanitized))
                      /\ previous' = sanitized
                 ELSE UNCHANGED <<sanitized, previous>>
    /\ UNCHANGED <<table, idVars, termVars, parseVars, gpaVars, buildVars,
                   attemptVars, rollupVars, binaryVars, creditVars, prepareVars>>

RunAllNext == RunCommand

SpecRunAll == RunAllInit /\ [][RunAllNext]_vars

\* C29: no analysis command runs before the sanitizer has completed, no command
\* runs after one that failed, and every analysis command reads the sanitized
\* table the sanitizer wrote, never the clean table.
C29_AnalysisReadsSanitized ==
    \A k \in 1..Len(log) :
        /\ log[k].module # "sanitizer" =>
              /\ k > 1 /\ log[1].module = "sanitizer" /\ log[1].ok
              /\ log[k].clean = "SANITIZED"
              /\ log[k].columns = sanitized.sanitized_table
        /\ ~log[k].ok => k = Len(log)

(***************************************************************************)
(* C26 -- a workbook in which no sheet matches the GPA-grid markers makes  *)
(* build_information_only abort: once the build has run on such a          *)
(* workbook its outcome is the raised one, and no wide table is written.   *)
(* (The info-sheet half of the claim has the same shape: cli.py:62 falls   *)
(* back to the first sheet of the workbook.)                               *)
(***************************************************************************)
C26_MissingSheetAborts ==
    (built # NotRun /\ ~GpaSheetFound(gpaCols)) => built.status = "raised"

(***************************************************************************)
(* prepare_information_features on an info sheet that may lack columns     *)
(***************************************************************************)
\* the info-sheet columns the sheet may lack: the three CGPA columns and the
\* four chem_110 columns build_attempt_features reads (COURSE_KEYS, lines 23-30)
CgpaColumns == { "graduating_cgpa", "cgpa_at_etm_to_any_campus",
                 "highest_cgpa_during_credit_window" }
Chem110 == [first_grade    |-> "chem_110_grade_code_1st_fa_or_sp",
            outcome_1st_ay |-> "chem_110_outcome_after_1st_ay",
            outcome_2nd_ay |-> "chem_110_outcome_after_2nd_ay",
            final_outcome  |-> "chem_110_outcome"]
Chem110Columns == { Chem110[k] : k \in DOMAIN Chem110 }
OptionalColumns == CgpaColumns \cup Chem110Columns

\* DataFrame.get(c): the column cell by cell, or None when the frame lacks it
DfGet(df, c) ==
    IF c \in df.columns THEN Some([i \in 1..Len(df.rows) |-> df.rows[i][c]]) ELSE None

\* to_numeric(base, [c for c in num_cols if c in base.columns]) seen through get
NumericGet(df, c) ==
    LET col == DfGet(df, c)
    IN  IF col = None THEN None ELSE Some([i \in DOMAIN col[1] |-> ToNumeric(col[1][i])])

\* a - b on what two get calls returned: None has no subtraction, and a float
\* column of a sheet with rows has none with None either
CanSubtract(a, b) == a # None /\ b # None

\* engineer_info_features(summary)
EngineerInfoFeatures(df) ==
    LET g == NumericGet(df, "graduating_cgpa")
        e == NumericGet(df, "cgpa_at_etm_to_any_campus")
        h == NumericGet(df, "highest_cgpa_during_credit_window")
    IN  IF ~CanSubtract(g, e) THEN [status |-> "raised", error |-> "TypeError", line |-> 384]
        ELSE IF ~CanSubtract(h, e) THEN [status |-> "raised", error |-> "TypeError", line |-> 406]
        ELSE [status |-> "ok",
              rows   |-> [i \in 1..Len(df.rows) |->
                             [random_id      |-> df.rows[i].random_id,
                              cgpa_gap       |-> Minus(g[1][i], e[1][i]),
                              peak_minus_etm |-> Minus(h[1][i], e[1][i])]]]

\* series_or_na(colname, n), at row i
SeriesOrNa(df, c, i) == IF c \in df.columns THEN df.rows[i][c] ELSE NA

\* build_attempt_features(df), for chem_110
Chem110Features(df) ==
    [i \in 1..Len(df.rows) |->
        [random_id |-> df.rows[i].random_id,
         chem_110  |-> CourseFeatures(CourseCells(SeriesOrNa(df, Chem110.first_grade, i),
                                                  SeriesOrNa(df, Chem110.outcome_1st_ay, i),
                                                  SeriesOrNa(df, Chem110.outcome_2nd_ay, i),
                                                  SeriesOrNa(df, Chem110.final_outcome, i)))]]

NoCourseFeatures == [chem_110 |-> NA]

\* prepare_information_features(summary_sheet), lines 434-443
PrepareInformationFeatures(df) ==
    LET info == EngineerInfoFeatures(df)
    IN  IF info.status = "raised" THEN info
        ELSE [status |-> "ok",
              rows   |-> LeftJoin(info.rows, Chem110Features(df), "random_id", NoCourseFeatures)]

\* the most rows the sheet has (it has one at least)
MaxPrepareRows == 2

\* the students of the sheet, with a value in every column it may have
PrepareRows ==
    { [random_id |-> <<"1">>, graduating_cgpa |-> Num(31), cgpa_at_etm_to_any_campus |-> Num(30),
       highest_cgpa_during_credit_window |-> Num(36),
       chem_110_grade_code_1st_fa_or_sp |-> Text(<<"A">>),
       chem_110_outcome_after_1st_ay |-> Text(<<"1", "s", "t", " ", "A", "t", "t", "e", "m", "p", "t", "=", "A", "B", "C">>),
       chem_110_outcome_after_2nd_ay |-> NA,
       chem_110_outcome |-> Text(<<"P", "a", "s", "s">>)],
      [random_id |-> <<"2">>, graduating_cgpa |-> NA, cgpa_at_etm_to_any_campus |-> Num(28),
       highest_cgpa_during_credit_window |-> Text(<<"3", ".", "4">>),
       chem_110_grade_code_1st_fa_or_sp |-> Text(<<"F">>),
       chem_110_outcome_after_1st_ay |-> Text(<<"O", "n", "l", "y", " ", "1", " ", "A", "t", "t", "e", "m", "p", "t", "=", "D", "F", "W">>),
       chem_110_outcome_after_2nd_ay |-> NA,
       chem_110_outcome |-> Text(<<"D", "F", "W">>)] }

\* a row cut down to the columns the sheet has
OnColumns(row, cols) == [c \in cols \cup {"random_id"} |-> row[c]]

PrepareInit ==
    /\ \E cols \in SUBSET OptionalColumns : \E n \in 1..MaxPrepareRows :
          \E rows \in SheetsOfLen(PrepareRows, n) :
             summarySheet = [columns |-> cols \cup {"random_id"},
                        rows    |-> [i \in 1..n |-> OnColumns(rows[i], cols)]]
    /\ prepared = NotRun
    /\ IdIdle /\ TermIdle /\ ParseIdle /\ GpaIdle /\ BuildIdle /\ AttemptIdle /\ RollupIdle
    /\ SanitizerIdle /\ BinaryIdle /\ CreditIdle /\ RunAllIdle

\* prepare_information_features(summary_sheet)
Prepare ==
    /\ prepared = NotRun
    /\ prepared' = PrepareInformationFeatures(summarySheet)
    /\ UNCHANGED <<summarySheet, idVars, termVars, parseVars, gpaVars, buildVars, attemptVars,
                   rollupVars, sanitizerVars, binaryVars, creditVars, runAllVars>>

PrepareNext == Prepare

SpecPrepare == PrepareInit /\ [][PrepareNext]_vars

(***************************************************************************)
(* C27 -- when the info sheet lacks an optional column,                    *)
(* prepare_information_features completes without raising and the features *)
(* derived from the absent column are null in every row: cgpa_gap when     *)
(* graduating_cgpa or cgpa_at_etm_to_any_campus is absent, peak_minus_etm  *)
(* when highest_cgpa_during_credit_window or cgpa_at_etm_to_any_campus is  *)
(* absent, and the course's attempts_to_abc when the course has none of    *)
(* its outcome columns.                                                    *)
(***************************************************************************)
C27_AbsentColumnGivesNull ==
    (prepared # NotRun /\ ~(OptionalColumns \subseteq summarySheet.columns)) =>
        /\ prepared.status = "ok"
        /\ \A i \in 1..Len(prepared.rows) :
              /\ ~({"graduating_cgpa", "cgpa_at_etm_to_any_campus"} \subseteq summarySheet.columns)
                    => IsNa(prepared.rows[i].cgpa_gap)
              /\ ~({"highest_cgpa_during_credit_window", "cgpa_at_etm_to_any_campus"}
                       \subseteq summarySheet.columns)
                    => IsNa(prepared.rows[i].peak_minus_etm)
              /\ Chem110Columns \cap summarySheet.columns \subseteq {Chem110.first_grade}
                    => prepared.rows[i].chem_110.attempts_to_abc = None


====
